---- MODULE Spec2Model ----
(***************************************************************************)
(* Model of the day-10 CPU (src/2022/Dec10/dec-10.ts): the loader          *)
(* CPU.load, the cycle-stepped engine CPU.tick and the query accessors.    *)
(* One CPU object is constructed, loaded once with a newline-terminated    *)
(* text and then driven by tick() calls.                                   *)
(*                                                                         *)
(* JavaScript values are tagged records: Num(n), NaN and Undefined.        *)
(* Strings are sequences of one-character strings.                         *)
(***************************************************************************)
EXTENDS Integers, Sequences, FiniteSets, TLC

\* ---------------------------------------------------------------- bounds
\* Largest number of lines in a loaded text.
MaxLines == 3
\* Largest number of tick() calls the driver makes on one CPU.
MaxTicks == 8
\* Largest number of lines in the repeated pattern of a long program.
MaxPattern == 2
\* Largest number of repetitions of the pattern in a long program.
MaxRepeat == 16
\* Largest number of part functions handed to RunnerFunctionFactory.build.
MaxParts == 3
\* Largest number of calls of a built runner.
MaxRuns == 3
\* Largest number of lines FileSystem.load processes.
MaxFsLines == 7
\* Largest number of items a Monkey is constructed with.
MaxItems == 2
\* Largest number of calls of a Monkey's methods.
MaxCalls == 4
\* Largest length of an input of the day-6 scan of part 1.
MaxScanLen == 6
\* Largest length of what precedes the alphabet in an input of part 2.
MaxPrefix == 2
\* Largest number of monkeys handed to calculateMonkeyBusiness.
MaxMonkeys == 4
\* Largest inspection count of a monkey there.
MaxCount == 3
\* Largest number of stacks of a CrateStackSet.
MaxStacks == 2
\* Largest quantity of a MoveCommand.
MaxQty == 3
\* Largest number of direct calls of Screen.setPixel.
MaxSets == 2
\* Largest number of repetitions of the unit of a program that is rendered.
MaxUnits == 122

\* ------------------------------------------------------------- JS values
Num(n) == [kind |-> "number", v |-> n]
NaN == [kind |-> "NaN", v |-> 0]
Undefined == [kind |-> "undefined", v |-> 0]

\* a * b on JS numbers: NaN on either side gives NaN.
Mul(a, b) ==
  IF a.kind = "number" /\ b.kind = "number" THEN Num(a.v * b.v) ELSE NaN

\* a + b on JS numbers: NaN (or undefined) on either side gives NaN.
Add(a, b) ==
  IF a.kind = "number" /\ b.kind = "number" THEN Num(a.v + b.v) ELSE NaN

\* ------------------------------------------------------- instruction set
NOOP == 0
ADDX == 1

Instruction(opcode, arg) == [opcode |-> opcode, arg |-> arg]

\* The empty in-flight slot (queuedOp = null); an occupied slot is <<i>>.
null == <<>>

\* --------------------------------------------------------------- strings
NL == "\n"
SP == " "
noopStr == <<"n", "o", "o", "p">>
addxStr == <<"a", "d", "d", "x">>
undefinedStr == <<"u", "n", "d", "e", "f", "i", "n", "e", "d">>

Digits == {"0", "1", "2", "3", "4", "5", "6", "7", "8", "9"}
DigitVal(c) ==
  CASE c = "0" -> 0 [] c = "1" -> 1 [] c = "2" -> 2 [] c = "3" -> 3
    [] c = "4" -> 4 [] c = "5" -> 5 [] c = "6" -> 6 [] c = "7" -> 7
    [] c = "8" -> 8 [] c = "9" -> 9

\* line.split(' '): the pieces between single spaces, empty pieces kept.
RECURSIVE SplitFrom(_, _, _, _)
SplitFrom(s, i, cur, acc) ==
  IF i > Len(s) THEN Append(acc, cur)
  ELSE IF s[i] = SP THEN SplitFrom(s, i + 1, <<>>, Append(acc, cur))
  ELSE SplitFrom(s, i + 1, Append(cur, s[i]), acc)

split(s) == SplitFrom(s, 1, <<>>, <<>>)

\* The string parseInt sees for tokens[k] (0-based k): an index past the
\* end is undefined, which parseInt converts to the string "undefined".
TokenStr(tokens, k) ==
  IF k + 1 <= Len(tokens) THEN tokens[k + 1] ELSE undefinedStr

\* Value of the longest run of decimal digits starting at s[i].
RECURSIVE DigitRun(_, _, _, _)
DigitRun(s, i, acc, seen) ==
  IF i <= Len(s) /\ s[i] \in Digits
  THEN DigitRun(s, i + 1, 10 * acc + DigitVal(s[i]), TRUE)
  ELSE [seen |-> seen, v |-> acc]

RECURSIVE SkipSpaces(_, _)
SkipSpaces(s, i) ==
  IF i <= Len(s) /\ s[i] = SP THEN SkipSpaces(s, i + 1) ELSE i

\* parseInt(s), radix 10: leading blanks, an optional sign, then digits up
\* to the first non-digit; NaN when there is no digit. (The "0x" prefix
\* and white space other than the blank do not occur in Lines.)
parseInt(s) ==
  LET i == SkipSpaces(s, 1)
      neg == i <= Len(s) /\ s[i] = "-"
      signed == i <= Len(s) /\ s[i] \in {"-", "+"}
      r == DigitRun(s, IF signed THEN i + 1 ELSE i, 0, FALSE)
  IN  IF r.seen THEN Num(IF neg THEN 0 - r.v ELSE r.v) ELSE NaN

\* ---------------------------------------------------------------- errors
NoError == [kind |-> "none", detail |-> <<>>]
UnsupportedCommand(command) ==
  [kind |-> "Unsupported command", detail |-> command]
UnrecognizedOpcode == [kind |-> "Unrecognized operation code", detail |-> <<>>]
NoQueuedExec == [kind |-> "does not support queued exec", detail |-> <<>>]
NoSuchRow(r) == [kind |-> "Screen does not have row", detail |-> <<r>>]
NoSuchColumn(c) == [kind |-> "Screen does not have column", detail |-> <<c>>]

\* ----------------------------------------------------------------- state
VARIABLES
  registerFile,   \* CPU.registerFile: register name -> value
  busy,           \* CPU.busy
  opCount,        \* CPU.opCount: remaining latency of the in-flight op
  queuedOp,       \* CPU.queuedOp: null or <<instruction>>
  cycle,          \* CPU.cycle
  instructions,   \* CPU.instructions: the instruction memory queue
  str,            \* the text handed to load()
  pc,             \* driver position: "new", "loaded" or "failed"
  ticks,          \* number of tick() calls the driver has made
  thrown,         \* the error thrown by the last call, or NoError
  observed,       \* what the query accessors last returned, and when
  loopPc,         \* part 1 / part 2 position: "none", "loop" or "done"
  runningTotal,   \* part1: the local runningTotal
  pixels,         \* Screen.pixels: row -> column -> character
  row             \* part2: the local row

\* The fields of the CPU object.
cpuFields == <<registerFile, busy, opCount, queuedOp, cycle, instructions>>

\* The CPU object and its driver.
cpuVars == <<cpuFields, str, pc, ticks, thrown, observed>>

\* The locals of ElfCathodeRayTube.part1.
part1Vars == <<loopPc, runningTotal>>

\* Everything but the CPU object and its driver.
\* The screen and the locals of ElfCathodeRayTube.part2.
part2Vars == <<pixels, row>>

\* --------------------------------------------- state of the other modules
VARIABLES
  parts,          \* RunnerFunctionFactory.build: the captured parts array
  invocations,    \* the part functions invoked so far, in order
  runArg,         \* the argument of the last call of the runner
  runThrown,      \* the error thrown by build or by the last runner call
  runs            \* number of calls of the runner

runnerVars == <<parts, invocations, runArg, runThrown, runs>>

VARIABLES
  content,        \* Folder.content of every folder, by the folder's path
  ref,            \* FileSystem.ref: the path of the current folder
  parent,         \* FileSystem.parent: stack of folder paths
  isListingDir,   \* FileSystem.load: the local isListingDir
  fsLine,         \* FileSystem.load: the line just processed
  lineNum,        \* FileSystem.load: the local lineNum
  addResult,      \* FileSystem.load: the local addResult of the last add
  fsPc,           \* FileSystem.load position: "loading", "loaded", "failed"
  fsThrown        \* the error thrown by load, or NoError

fsVars ==
  <<content, ref, parent, isListingDir, fsLine, lineNum, addResult, fsPc,
    fsThrown>>

VARIABLES
  items,          \* Monkey.items: the queue of items, head first
  itemAtHand,     \* Monkey.itemAtHand: <<item>>, or <<>> for undefined
  inspections,    \* Monkey.inspections
  worryOp,        \* Monkey.worryOp: what the closure captured
  throwOp,        \* Monkey.throwOp: what the closure captured
  itemInAir,      \* what the last throwItem returned: <<thrown item>> or <<>>
  monkeyThrown,   \* the error thrown by the last call, or NoError
  monkeyPc,       \* "none" before the constructor, then "built" or "failed"
  lastCall,       \* the method of the last call
  calls           \* number of calls of the monkey's methods

monkeyVars ==
  <<items, itemAtHand, inspections, worryOp, throwOp, itemInAir,
    monkeyThrown, monkeyPc, lastCall, calls>>

VARIABLES
  firstPlay,      \* determineWinner: the argument first of the last call
  secondPlay,     \* determineWinner: the argument second of the last call
  roundOutcome,   \* part1: what the last determineWinner returned
  rivalPlay,      \* determineCorrectPlay: the argument rivalPlay
  desiredOutcome, \* determineCorrectPlay: the argument desiredOutcome
  yourPlay,       \* part2: what the last determineCorrectPlay returned
  rpsThrown       \* the error thrown by the last call, or NoError

rpsVars ==
  <<firstPlay, secondPlay, roundOutcome, rivalPlay, desiredOutcome,
    yourPlay, rpsThrown>>

VARIABLES
  inputStr,       \* ElfTuningTrouble: the input string of the scan
  sequenceLength, \* the window length: 4 in part1, 14 in part2
  occurrences,    \* the local occurrences: character -> count
  history,        \* the local history: set of characters
  queue,          \* the local queue: the characters of the window
  scanI,          \* the loop variable i, reported after the loop
  scanPc          \* "none", then "scanning", then "done"

scanVars ==
  <<inputStr, sequenceLength, occurrences, history, queue, scanI, scanPc>>

VARIABLES
  monkeys,        \* ElfMonkeyInTheMiddle.monkeys: their inspectionsMade
  largest,        \* calculateMonkeyBusiness: the local largest
  secondLargest,  \* calculateMonkeyBusiness: the local second
  monkeyIndex,    \* number of monkeys the for loop has visited
  monkeyBusiness, \* what calculateMonkeyBusiness returned
  businessPc      \* "none", then "looping", then "returned"

businessVars ==
  <<monkeys, largest, secondLargest, monkeyIndex, monkeyBusiness,
    businessPc>>

VARIABLES
  stacks,         \* CrateStackSet.stacks: stack number -> crates, top last
  move,           \* the MoveCommand of the last apply
  craneVersion,   \* the CraneVersion of the last apply
  crateThrown,    \* the error thrown by the last apply, or NoError
  cratePc         \* "none" before the constructor, then "built"

crateVars == <<stacks, move, craneVersion, crateThrown, cratePc>>

VARIABLES
  pixelCall,      \* the arguments of the last direct call of setPixel
  pixelThrown,    \* the error that call threw, or NoError
  setCalls        \* number of direct calls of setPixel

screenVars == <<pixelCall, pixelThrown, setCalls>>

\* The state of the day-6 scan, of calculateMonkeyBusiness, of the day-5
\* crate stacks and of the direct calls of Screen.setPixel.
moreVars == <<scanVars, businessVars, crateVars, screenVars>>

\* Everything outside the day-10 solution.
otherVars == <<runnerVars, fsVars, monkeyVars, rpsVars, moreVars>>

nonCpuVars == <<part1Vars, part2Vars, otherVars>>

vars == <<cpuVars, nonCpuVars>>

\* The CPU object as a record of its fields.
This ==
  [registerFile |-> registerFile, busy |-> busy, opCount |-> opCount,
   queuedOp |-> queuedOp, cycle |-> cycle, instructions |-> instructions]

\* ------------------------------------------------------------------ load
\* Mutant of decode: an unknown command is taken for a noop, not rejected.
decode_UnknownAsNoop(line) ==
  LET tokens == split(line)
      command == tokens[1]
  IN  IF command = addxStr
      THEN [thrown |-> NoError,
            instruction |-> Instruction(ADDX, parseInt(TokenStr(tokens, 1)))]
      ELSE [thrown |-> NoError,
            instruction |-> Instruction(NOOP, Undefined)]

\* The body of the switch on the command token of one line: the
\* instruction built, or the error thrown.
decode(line) ==
  LET tokens == split(line)
      command == tokens[1]
  IN  IF command = noopStr
      THEN [thrown |-> NoError,
            instruction |-> Instruction(NOOP, Undefined)]
      ELSE IF command = addxStr
      THEN [thrown |-> NoError,
            instruction |-> Instruction(ADDX, parseInt(TokenStr(tokens, 1)))]
      ELSE [thrown |-> UnsupportedCommand(command),
            instruction |-> Instruction(NOOP, Undefined)]

\* The character loop of load() from position i on: buffer holds the
\* characters of the current line read so far, instrs is this.instructions
\* so far. The characters up to the k-th newline from i on go to the
\* buffer, the newline decodes the buffer (line(k)), pushes the instruction
\* and resets the buffer; characters after the last newline are buffered
\* and dropped. The first line that throws ends the loop and leaves the
\* instructions already pushed in place.
loadLoop(s, i, buffer, instrs) ==
  LET newlines == { j \in i..Len(s) : s[j] = NL }
      count == Cardinality(newlines)
      lineNo == [j \in newlines |-> Cardinality({ m \in newlines : m <= j })]
      nth == [k \in 1..count |-> CHOOSE n \in newlines : lineNo[n] = k]
      line(k) == IF k = 1 THEN buffer \o SubSeq(s, i, nth[1] - 1)
                 ELSE SubSeq(s, nth[k - 1] + 1, nth[k] - 1)
      decoded == [k \in 1..count |-> decode(line(k))]
      bad == { k \in 1..count : decoded[k].thrown # NoError }
      pushed(n) == instrs \o [k \in 1..n |-> decoded[k].instruction]
  IN  IF bad = {} THEN [instructions |-> pushed(count), thrown |-> NoError]
      ELSE LET b == CHOOSE k \in bad : \A m \in bad : k <= m
           IN  [instructions |-> pushed(b - 1), thrown |-> decoded[b].thrown]

load(this, s) == loadLoop(s, 1, <<>>, this.instructions)

\* ------------------------------------------------------------------ tick
\* Mutant of tickIdle: the addx effect is applied at fetch already.
tickIdle_EagerCommit(this) ==
  IF this.instructions = <<>>
  THEN this @@ [thrown |-> NoError]
  ELSE LET nextInstruction == Head(this.instructions)
           shifted == [this EXCEPT !.instructions = Tail(this.instructions)]
       IN  IF nextInstruction.opcode = NOOP
           THEN shifted @@ [thrown |-> NoError]
           ELSE [shifted EXCEPT
                   !.busy = TRUE, !.opCount = 1,
                   !.queuedOp = <<Instruction(ADDX, Num(0))>>,
                   !.registerFile.X =
                     Add(shifted.registerFile.X, nextInstruction.arg)]
                @@ [thrown |-> NoError]

\* Mutant of tickIdle: the fetched addx is not stored in queuedOp.
tickIdle_NoQueuedOp(this) ==
  IF this.instructions = <<>>
  THEN this @@ [thrown |-> NoError]
  ELSE LET nextInstruction == Head(this.instructions)
           shifted == [this EXCEPT !.instructions = Tail(this.instructions)]
       IN  IF nextInstruction.opcode = NOOP
           THEN shifted @@ [thrown |-> NoError]
           ELSE [shifted EXCEPT !.busy = TRUE, !.opCount = 1]
                @@ [thrown |-> NoError]

\* Mutant of tickIdle: a noop occupies the engine for a busy cycle too.
tickIdle_NoopIsQueued(this) ==
  IF this.instructions = <<>>
  THEN this @@ [thrown |-> NoError]
  ELSE LET nextInstruction == Head(this.instructions)
           shifted == [this EXCEPT !.instructions = Tail(this.instructions)]
       IN  [shifted EXCEPT !.busy = TRUE, !.opCount = 1,
                           !.queuedOp = <<nextInstruction>>]
           @@ [thrown |-> NoError]

\* Mutant of tickIdle: with nothing to fetch, the instruction left in
\* queuedOp is started again.
tickIdle_RestartsQueuedOp(this) ==
  IF this.instructions = <<>>
  THEN (IF this.queuedOp = null THEN this
        ELSE [this EXCEPT !.busy = TRUE, !.opCount = 1])
       @@ [thrown |-> NoError]
  ELSE LET nextInstruction == Head(this.instructions)
           shifted == [this EXCEPT !.instructions = Tail(this.instructions)]
       IN  IF nextInstruction.opcode = NOOP
           THEN shifted @@ [thrown |-> NoError]
           ELSE [shifted EXCEPT !.busy = TRUE, !.opCount = 1,
                                !.queuedOp = <<nextInstruction>>]
                @@ [thrown |-> NoError]

\* The IDLE branch: fetch and decode the next instruction, if any.
tickIdle(this) ==
  IF this.instructions = <<>>
  THEN this @@ [thrown |-> NoError]
  ELSE LET nextInstruction == Head(this.instructions)
           shifted == [this EXCEPT !.instructions = Tail(this.instructions)]
       IN  IF nextInstruction.opcode = NOOP
           THEN shifted @@ [thrown |-> NoError]
           ELSE IF nextInstruction.opcode = ADDX
           THEN [shifted EXCEPT !.busy = TRUE, !.opCount = 1,
                                !.queuedOp = <<nextInstruction>>]
                @@ [thrown |-> NoError]
           ELSE shifted @@ [thrown |-> UnrecognizedOpcode]

\* Mutant of tickBusy: the commit does not reset the busy flag.
tickBusy_StaysBusy(this) ==
  LET counted ==
        IF this.opCount > 0 THEN [this EXCEPT !.opCount = this.opCount - 1]
        ELSE this
  IN  IF counted.opCount = 0
      THEN IF counted.queuedOp # null /\ counted.queuedOp[1].opcode = ADDX
           THEN [counted EXCEPT !.registerFile.X =
                   Add(counted.registerFile.X, counted.queuedOp[1].arg)]
                @@ [thrown |-> NoError]
           ELSE counted @@ [thrown |-> NoQueuedExec]
      ELSE counted @@ [thrown |-> NoError]

\* Mutant of tickBusy: the BUSY branch also shifts the instruction queue.
tickBusy_Fetches(this) ==
  LET counted ==
        IF this.opCount > 0 THEN [this EXCEPT !.opCount = this.opCount - 1]
        ELSE this
      shifted ==
        IF counted.instructions = <<>> THEN counted
        ELSE [counted EXCEPT !.instructions = Tail(counted.instructions)]
  IN  IF shifted.opCount = 0
      THEN IF shifted.queuedOp # null /\ shifted.queuedOp[1].opcode = ADDX
           THEN [shifted EXCEPT !.registerFile.X =
                   Add(shifted.registerFile.X, shifted.queuedOp[1].arg),
                                !.busy = FALSE]
                @@ [thrown |-> NoError]
           ELSE shifted @@ [thrown |-> NoQueuedExec]
      ELSE shifted @@ [thrown |-> NoError]

\* The BUSY branch: count down and commit the in-flight instruction.
tickBusy(this) ==
  LET counted ==
        IF this.opCount > 0 THEN [this EXCEPT !.opCount = this.opCount - 1]
        ELSE this
  IN  IF counted.opCount = 0
      THEN IF counted.queuedOp # null /\ counted.queuedOp[1].opcode = ADDX
           THEN LET newVal ==
                      Add(counted.registerFile.X, counted.queuedOp[1].arg)
                IN  [counted EXCEPT !.registerFile.X = newVal,
                                    !.busy = FALSE]
                    @@ [thrown |-> NoError]
           ELSE counted @@ [thrown |-> NoQueuedExec]
      ELSE counted @@ [thrown |-> NoError]

\* Mutant of tick: a tick that finds nothing to do returns early, before
\* the cycle count advances.
tick_EarlyReturnWhenDone(this) ==
  IF ~this.busy /\ this.instructions = <<>>
  THEN this @@ [thrown |-> NoError]
  ELSE LET r == IF ~this.busy THEN tickIdle(this) ELSE tickBusy(this)
       IN  IF r.thrown = NoError THEN [r EXCEPT !.cycle = r.cycle + 1] ELSE r

\* tick(): one branch, then the cycle count advances (not reached when the
\* branch throws).
tick(this) ==
  LET r == IF ~this.busy THEN tickIdle(this) ELSE tickBusy(this)
  IN  IF r.thrown = NoError THEN [r EXCEPT !.cycle = r.cycle + 1] ELSE r

\* --------------------------------------------------------------- queries
getCycle(this) == this.cycle

\* Mutant of hasAdditionalWork: the busy flag is not consulted.
hasAdditionalWork_QueueOnly(this) == Len(this.instructions) > 0

hasAdditionalWork(this) == Len(this.instructions) > 0 \/ this.busy

getRegisterX(this) == this.registerFile.X

\* Mutant of query: hasAdditionalWork() probes the queue by shifting it.
query_ShiftingProbe(this) ==
  [this |-> IF this.instructions = <<>> THEN this
            ELSE [this EXCEPT !.instructions = Tail(this.instructions)],
   cycle |-> getCycle(this),
   x |-> getRegisterX(this),
   work |-> hasAdditionalWork(this)]

\* One call of each accessor: the object afterwards and the three values
\* returned. The accessors only read fields.
query(this) ==
  [this |-> this,
   cycle |-> getCycle(this),
   x |-> getRegisterX(this),
   work |-> hasAdditionalWork(this)]

\* Nothing has been queried yet.
NotObserved == [at |-> 0 - 1, cycle |-> 0, x |-> Num(0), work |-> FALSE]

\* ---------------------------------------------------------------- screen
MAX_WIDTH == 40
MAX_HEIGHT == 6

\* The screen after construction: every pixel a blank.
BlankScreen == [r \in 0..(MAX_HEIGHT - 1) |-> [c \in 0..(MAX_WIDTH - 1) |-> " "]]

\* Mutant of setPixel: rows are counted from 1, row 0 is refused.
setPixel_RowFromOne(px, r, c, char) ==
  IF r > MAX_HEIGHT - 1 \/ r < 1
  THEN [pixels |-> px, thrown |-> NoSuchRow(r)]
  ELSE IF c > MAX_WIDTH - 1 \/ c < 0
  THEN [pixels |-> px, thrown |-> NoSuchColumn(c)]
  ELSE [pixels |-> [px EXCEPT ![r][c] = char], thrown |-> NoError]

\* setPixel(row, column, char): the pixels afterwards and the error thrown.
setPixel(px, r, c, char) ==
  IF r > MAX_HEIGHT - 1 \/ r < 0
  THEN [pixels |-> px, thrown |-> NoSuchRow(r)]
  ELSE IF c > MAX_WIDTH - 1 \/ c < 0
  THEN [pixels |-> px, thrown |-> NoSuchColumn(c)]
  ELSE [pixels |-> [px EXCEPT ![r][c] = char], thrown |-> NoError]

\* ---------------------------------------------------------------- inputs
\* The lines a text is made of: well-formed ones, an addx without operand,
\* a noop with an operand, an unknown command and a blank line.
Lines ==
  { noopStr,
    addxStr \o <<SP, "3">>,
    addxStr \o <<SP, "-", "5">>,
    addxStr,
    noopStr \o <<SP, "5">>,
    <<"f", "o", "o", SP, "3">>,
    <<>> }

\* Each line followed by a newline, as part1/part2 hand the text to load.
RECURSIVE Join(_)
Join(ls) == IF ls = <<>> THEN <<>> ELSE Head(ls) \o <<NL>> \o Join(Tail(ls))

\* part1/part2 trim the file and append one newline: the text has no
\* blank first or last line unless it is a single blank line.
Trimmed(ls) == Len(ls) = 1 \/ (ls[1] # <<>> /\ ls[Len(ls)] # <<>>)

Texts ==
  { Join(ls) :
      ls \in { l \in UNION { [1..n -> Lines] : n \in 1..MaxLines } :
                Trimmed(l) } }

\* --------------------------------------------------------------- actions
Init ==
  /\ registerFile = [X |-> Num(1)]
  /\ busy = FALSE
  /\ opCount = 0
  /\ queuedOp = null
  /\ cycle = 0
  /\ instructions = <<>>
  /\ str = <<>>
  /\ pc = "new"
  /\ ticks = 0
  /\ thrown = NoError
  /\ observed = NotObserved
  /\ loopPc = "none"
  /\ runningTotal = Num(0)
  /\ pixels = BlankScreen
  /\ row = 0 - 1
  /\ parts = <<>>
  /\ invocations = <<>>
  /\ runArg = Undefined
  /\ runThrown = NoError
  /\ runs = 0
  /\ content = (<<>> :> <<>>)
  /\ ref = <<>>
  /\ parent = <<>>
  /\ isListingDir = FALSE
  /\ fsLine = <<>>
  /\ lineNum = 0
  /\ addResult = TRUE
  /\ fsPc = "loading"
  /\ fsThrown = NoError
  /\ items = <<>>
  /\ itemAtHand = <<>>
  /\ inspections = 0
  /\ worryOp = [operator |-> <<>>, rightHandSide |-> <<>>]
  /\ throwOp = [divisor |-> 0, destIfTrue |-> 0, destIfFalse |-> 0]
  /\ itemInAir = <<>>
  /\ monkeyThrown = NoError
  /\ monkeyPc = "none"
  /\ lastCall = "none"
  /\ calls = 0
  /\ firstPlay = Num(0)
  /\ secondPlay = Num(0)
  /\ roundOutcome = 0
  /\ rivalPlay = Num(0)
  /\ desiredOutcome = Num(0)
  /\ yourPlay = Num(0)
  /\ rpsThrown = NoError
  /\ inputStr = <<>>
  /\ sequenceLength = 4
  /\ occurrences = <<>>
  /\ history = {}
  /\ queue = <<>>
  /\ scanI = 0
  /\ scanPc = "none"
  /\ monkeys = <<>>
  /\ largest = 0
  /\ secondLargest = 0
  /\ monkeyIndex = 0
  /\ monkeyBusiness = 0
  /\ businessPc = "none"
  /\ stacks = <<>>
  /\ move = [quantity |-> Num(0), source |-> 0, destination |-> 0]
  /\ craneVersion = 0
  /\ crateThrown = NoError
  /\ cratePc = "none"
  /\ pixelCall = [row |-> 0, column |-> 0, char |-> " "]
  /\ pixelThrown = NoError
  /\ setCalls = 0

\* cpu.load(text) on the freshly constructed CPU.
LoadText(text) ==
  /\ pc = "new"
  /\ LET r == load(This, text)
     IN  /\ str' = text
         /\ instructions' = r.instructions
         /\ thrown' = r.thrown
         /\ pc' = IF r.thrown = NoError THEN "loaded" ELSE "failed"
  /\ UNCHANGED <<registerFile, busy, opCount, queuedOp, cycle, ticks,
                 observed>>

Load ==
  /\ \E text \in Texts : LoadText(text)
  /\ UNCHANGED nonCpuVars

\* cpu.tick() on the loaded CPU; an error thrown by tick ends the run.
Tick ==
  /\ pc = "loaded"
  /\ thrown = NoError
  /\ ticks < MaxTicks
  /\ LET r == tick(This)
     IN  /\ registerFile' = r.registerFile
         /\ busy' = r.busy
         /\ opCount' = r.opCount
         /\ queuedOp' = r.queuedOp
         /\ cycle' = r.cycle
         /\ instructions' = r.instructions
         /\ thrown' = r.thrown
  /\ ticks' = ticks + 1
  /\ UNCHANGED <<str, pc, observed>>
  /\ UNCHANGED nonCpuVars

\* getCycle(), getRegisterX() and hasAdditionalWork() called between ticks.
Query ==
  /\ pc = "loaded"
  /\ thrown = NoError
  /\ LET r == query(This)
     IN  /\ registerFile' = r.this.registerFile
         /\ busy' = r.this.busy
         /\ opCount' = r.this.opCount
         /\ queuedOp' = r.this.queuedOp
         /\ cycle' = r.this.cycle
         /\ instructions' = r.this.instructions
         /\ observed' = [at |-> ticks, cycle |-> r.cycle, x |-> r.x,
                         work |-> r.work]
  /\ UNCHANGED <<str, pc, ticks, thrown>>
  /\ UNCHANGED nonCpuVars

Next == Load \/ Tick \/ Query

Spec == Init /\ [][Next]_vars

\* ----------------------------------------------------------------- part1
\* Long programs: a pattern of well-formed lines (and the addx without
\* operand) repeated, long enough to reach the sampled cycles.
PatternLines ==
  { noopStr, addxStr \o <<SP, "3">>, addxStr \o <<SP, "-", "5">>, addxStr }

RECURSIVE Repeat(_, _)
Repeat(ls, n) == IF n = 0 THEN <<>> ELSE ls \o Repeat(ls, n - 1)

LongTexts ==
  { Join(Repeat(ls, n)) :
      ls \in UNION { [1..m -> PatternLines] : m \in 1..MaxPattern },
      n \in 1..MaxRepeat }

cyclesToCheck == {20, 60, 100, 140, 180, 220}

\* Mutant of part1Body: the sample is taken after the tick.
part1Body_SamplesAfterTick(this, total) ==
  LET cyc == getCycle(this) + 1
      r == tick(this)
  IN  [this |-> r,
       runningTotal |->
         IF cyc \in cyclesToCheck /\ r.thrown = NoError
         THEN Add(total, Mul(getRegisterX(r), Num(cyc)))
         ELSE total]

\* One iteration of the do-while body of part1: sample, then tick.
part1Body(this, total) ==
  LET cyc == getCycle(this) + 1
      sampled ==
        IF cyc \in cyclesToCheck
        THEN Add(total, Mul(getRegisterX(this), Num(cyc)))
        ELSE total
  IN  [this |-> tick(this), runningTotal |-> sampled]

\* part1 up to the loop: this.cpu.load(inputStr).
Part1Load ==
  /\ \E text \in LongTexts : LoadText(text)
  /\ loopPc' = "loop"
  /\ UNCHANGED <<runningTotal, part2Vars, otherVars>>

\* One iteration of the do-while loop of part1, with its while test.
Part1Iterate ==
  /\ pc = "loaded"
  /\ loopPc = "loop"
  /\ thrown = NoError
  /\ LET r == part1Body(This, runningTotal)
     IN  /\ registerFile' = r.this.registerFile
         /\ busy' = r.this.busy
         /\ opCount' = r.this.opCount
         /\ queuedOp' = r.this.queuedOp
         /\ cycle' = r.this.cycle
         /\ instructions' = r.this.instructions
         /\ thrown' = r.this.thrown
         /\ runningTotal' = r.runningTotal
         /\ loopPc' = IF r.this.thrown = NoError /\ hasAdditionalWork(r.this)
                      THEN "loop" ELSE "done"
  /\ ticks' = ticks + 1
  /\ UNCHANGED <<str, pc, observed, part2Vars, otherVars>>

NextPart1 == Part1Load \/ Part1Iterate

SpecPart1 == Init /\ [][NextPart1]_vars

\* part1 runs on its own thread of control to its end: a step that can be
\* taken is taken.
SpecPart1Fair == SpecPart1 /\ WF_vars(NextPart1)

\* ----------------------------------------------------------------- part2
\* column >= x - 1 && column <= x + 1, false when x is NaN.
spriteVisible(column, x) ==
  x.kind = "number" /\ column >= x.v - 1 /\ column <= x.v + 1

\* Mutant of part2Body: the pixel is addressed by the 1-based cycle.
part2Body_OneBasedCycle(this, px, rw) ==
  LET cyc == getCycle(this) + 1
      column == cyc % MAX_WIDTH
      x == getRegisterX(this)
      newRow == IF column = 0 THEN rw + 1 ELSE rw
      pixel == IF spriteVisible(column, x) THEN "#" ELSE "."
      set == setPixel(px, newRow, column, pixel)
  IN  [this |-> IF set.thrown = NoError THEN tick(this)
                ELSE this @@ [thrown |-> set.thrown],
       pixels |-> set.pixels,
       row |-> newRow]

\* One iteration of the do-while body of part2: address the pixel by the
\* 0-based cycle, draw it, then tick. A throw of setPixel skips the tick.
part2Body(this, px, rw) ==
  LET cyc == getCycle(this)
      column == cyc % MAX_WIDTH
      x == getRegisterX(this)
      newRow == IF column = 0 THEN rw + 1 ELSE rw
      pixel == IF spriteVisible(column, x) THEN "#" ELSE "."
      set == setPixel(px, newRow, column, pixel)
  IN  [this |-> IF set.thrown = NoError THEN tick(this)
                ELSE this @@ [thrown |-> set.thrown],
       pixels |-> set.pixels,
       row |-> newRow]

\* part2 up to the loop: this.cpu.load(inputStr).
Part2Load ==
  /\ \E text \in LongTexts : LoadText(text)
  /\ loopPc' = "loop"
  /\ UNCHANGED <<runningTotal, part2Vars, otherVars>>

\* One iteration of the do-while loop of part2, with its while test.
Part2Iterate ==
  /\ pc = "loaded"
  /\ loopPc = "loop"
  /\ thrown = NoError
  /\ LET r == part2Body(This, pixels, row)
     IN  /\ registerFile' = r.this.registerFile
         /\ busy' = r.this.busy
         /\ opCount' = r.this.opCount
         /\ queuedOp' = r.this.queuedOp
         /\ cycle' = r.this.cycle
         /\ instructions' = r.this.instructions
         /\ thrown' = r.this.thrown
         /\ pixels' = r.pixels
         /\ row' = r.row
         /\ loopPc' = IF r.this.thrown = NoError /\ hasAdditionalWork(r.this)
                      THEN "loop" ELSE "done"
         /\ ticks' = IF r.this.thrown = NoError THEN ticks + 1 ELSE ticks
  /\ UNCHANGED <<str, pc, observed, runningTotal, otherVars>>

NextPart2 == Part2Load \/ Part2Iterate

SpecPart2 == Init /\ [][NextPart2]_vars

\* ------------------------------------------------ RunnerFunctionFactory
NoPartGiven == [kind |-> "No PartFunction reference(s) given", detail |-> <<>>]
NoSuchPart(partNum) ==
  [kind |-> "This solution has no part", detail |-> <<partNum>>]

\* build(ref, first, ...others): the parts array the runner captures.
\* Part functions are named by their position in the argument list.
build(first, others) ==
  LET ps == <<first>> \o others
  IN  IF Len(ps) < 1 THEN [parts |-> <<>>, thrown |-> NoPartGiven]
      ELSE [parts |-> ps, thrown |-> NoError]

\* Mutant of run: the default is taken with || instead of ??, so part 0
\* runs part 1.
run_FalsyDefault(ps, part) ==
  LET partNum == IF part = Undefined \/ part = Num(0) THEN 1 ELSE part.v
  IN  IF partNum > Len(ps) \/ partNum < 1
      THEN [invoked |-> <<>>, thrown |-> NoSuchPart(partNum)]
      ELSE [invoked |-> <<ps[(partNum - 1) + 1]>>, thrown |-> NoError]

\* The runner returned by build, called with an optional part number:
\* the part functions it invokes and the error it throws.
run(ps, part) ==
  LET partNum == IF part = Undefined THEN 1 ELSE part.v
  IN  IF partNum > Len(ps) \/ partNum < 1
      THEN [invoked |-> <<>>, thrown |-> NoSuchPart(partNum)]
      ELSE [invoked |-> <<ps[(partNum - 1) + 1]>>, thrown |-> NoError]

\* The arguments a runner is called with: none, or an integer.
RunArgs == {Undefined} \cup { Num(n) : n \in (0 - 1)..(MaxParts + 1) }

\* A solution class builds its runner from its part functions.
Build ==
  /\ parts = <<>>
  /\ \E n \in 1..MaxParts :
       LET r == build(1, [i \in 1..(n - 1) |-> i + 1])
       IN  /\ parts' = r.parts
           /\ runThrown' = r.thrown
  /\ UNCHANGED <<invocations, runArg, runs>>
  /\ UNCHANGED <<cpuVars, part1Vars, part2Vars, fsVars, monkeyVars, rpsVars,
               moreVars>>

\* solution.run(part) or solution.run(); an error ends the process.
Run ==
  /\ parts # <<>>
  /\ runThrown = NoError
  /\ runs < MaxRuns
  /\ \E part \in RunArgs :
       LET r == run(parts, part)
       IN  /\ runArg' = part
           /\ invocations' = invocations \o r.invoked
           /\ runThrown' = r.thrown
  /\ runs' = runs + 1
  /\ UNCHANGED parts
  /\ UNCHANGED <<cpuVars, part1Vars, part2Vars, fsVars, monkeyVars, rpsVars,
               moreVars>>

NextRunner == Build \/ Run

SpecRunner == Init /\ [][NextRunner]_vars

\* ------------------------------------------------------------ FileSystem
\* A folder is named by its path from the root, the root by <<>>; every
\* Folder object is created by load and added at one place, so the path
\* identifies the object. An entry of a content map is a file with its
\* size or a folder.
rootPath == <<>>
slashStr == <<"/">>
dotdotStr == <<".", ".">>
emptyMap == <<>>

FileEntry(size) == [kind |-> "file", size |-> size]
FolderEntry == [kind |-> "folder", size |-> Undefined]

\* A File or Folder object not yet in the tree.
Item(name, entry) == [name |-> name, entry |-> entry]

\* The FileSystem object as a record of what its fields reach.
ThisFs == [content |-> content, ref |-> ref, parent |-> parent]

ExpectedDestination ==
  [kind |-> "Expected destination", detail |-> <<>>]
UnsupportedFsCommand(command) ==
  [kind |-> "Unsupported command from line", detail |-> command]
AddFailed(n) == [kind |-> "FileSystem.add() failed at line", detail |-> <<n>>]

\* s.indexOf(sub): the 0-based position of the first occurrence, or -1.
indexOf(s, sub) ==
  LET hits == { i \in 0..(Len(s) - Len(sub)) :
                  SubSeq(s, i + 1, i + Len(sub)) = sub }
  IN  IF hits = {} THEN 0 - 1
      ELSE CHOOSE i \in hits : \A j \in hits : i <= j

\* s.substring(a, b) for a <= b: positions are clamped to 0..length.
substring(s, a, b) ==
  LET lo == IF a < 0 THEN 0 ELSE IF a > Len(s) THEN Len(s) ELSE a
      hi == IF b < 0 THEN 0 ELSE IF b > Len(s) THEN Len(s) ELSE b
  IN  SubSeq(s, lo + 1, hi)

\* changeDirectory(dest): to the root, up if the parent stack is not
\* empty, else down into a sub-folder of that name if there is one.
changeDirectory(fs, dest) ==
  IF dest = slashStr
  THEN [fs EXCEPT !.ref = rootPath, !.parent = <<>>]
  ELSE IF dest = dotdotStr /\ Len(fs.parent) > 0
  THEN [fs EXCEPT !.ref = fs.parent[Len(fs.parent)],
                  !.parent = SubSeq(fs.parent, 1, Len(fs.parent) - 1)]
  ELSE IF dest \in DOMAIN fs.content[fs.ref]
          /\ fs.content[fs.ref][dest].kind = "folder"
  THEN [fs EXCEPT !.parent = Append(fs.parent, fs.ref),
                  !.ref = Append(fs.ref, dest)]
  ELSE fs

\* The content maps after item is set in the current folder; a new
\* Folder brings its own empty content map.
withItem(fs, item) ==
  LET added == [fs.content EXCEPT
                  ![fs.ref] = (item.name :> item.entry) @@ @]
  IN  IF item.entry.kind = "folder"
      THEN (Append(fs.ref, item.name) :> emptyMap) @@ added
      ELSE added

\* Mutant of add: an existing entry is replaced, and false returned.
add_ReplacesExisting(fs, item) ==
  [fs |-> [fs EXCEPT !.content = withItem(fs, item)],
   success |-> item.name \notin DOMAIN fs.content[fs.ref]]

\* add(fileOrDir): the file system afterwards and the value returned.
add(fs, item) ==
  IF item.name \notin DOMAIN fs.content[fs.ref]
  THEN [fs |-> [fs EXCEPT !.content = withItem(fs, item)], success |-> TRUE]
  ELSE [fs |-> fs, success |-> FALSE]

\* What load does with one line when it reaches the newline after it:
\* a '$' read while listing ends the listing, then the line is a command,
\* a listed item, or ignored.
loadLine(fs, listing, ln, n) ==
  LET stillListing == listing /\ \A i \in 1..Len(ln) : ln[i] # "$"
      same == [fs |-> fs, isListingDir |-> stillListing,
               addResult |-> TRUE, called |-> FALSE, thrown |-> NoError]
  IN  IF indexOf(ln, <<"$", SP>>) = 0
      THEN LET command == substring(ln, 2, 4)
               arg == IF Len(ln) > 4 THEN substring(ln, 5, Len(ln)) ELSE <<>>
           IN  IF command = <<"c", "d">>
               THEN IF arg = <<>>
                    THEN [same EXCEPT !.thrown = ExpectedDestination]
                    ELSE [same EXCEPT !.fs = changeDirectory(fs, arg)]
               ELSE IF command = <<"l", "s">>
               THEN [same EXCEPT !.isListingDir = TRUE]
               ELSE [same EXCEPT !.thrown = UnsupportedFsCommand(command)]
      ELSE IF stillListing
      THEN LET dividerIndex == indexOf(ln, <<SP>>)
               itemName == substring(ln, dividerIndex + 1, Len(ln))
               item ==
                 IF indexOf(ln, <<"d", "i", "r">>) = 0
                 THEN Item(itemName, FolderEntry)
                 ELSE Item(itemName,
                           FileEntry(parseInt(substring(ln, 0, dividerIndex))))
               r == add(fs, item)
           IN  [same EXCEPT
                  !.fs = r.fs, !.addResult = r.success, !.called = TRUE,
                  !.thrown = IF r.success THEN NoError ELSE AddFailed(n)]
      ELSE same

\* The lines of the terminal log: cd into a name, up and to the root, ls,
\* and listed folders and files, a folder named '..' among them.
FsLines ==
  { <<"$", SP, "c", "d", SP, "a">>,
    <<"$", SP, "c", "d", SP, ".", ".">>,
    <<"$", SP, "c", "d", SP, "/">>,
    <<"$", SP, "l", "s">>,
    <<"d", "i", "r", SP, "a">>,
    <<"d", "i", "r", SP, ".", ".">>,
    <<"5", SP, "a">>,
    <<"7", SP, "b">> }

\* load(str), one line of str per step: the loop body at a newline.
LoadLine ==
  /\ fsPc = "loading"
  /\ lineNum < MaxFsLines
  /\ \E ln \in FsLines :
       LET r == loadLine(ThisFs, isListingDir, ln, lineNum)
       IN  /\ fsLine' = ln
           /\ content' = r.fs.content
           /\ ref' = r.fs.ref
           /\ parent' = r.fs.parent
           /\ isListingDir' = r.isListingDir
           /\ addResult' = IF r.called THEN r.addResult ELSE addResult
           /\ fsThrown' = r.thrown
           /\ fsPc' = IF r.thrown = NoError THEN "loading" ELSE "failed"
           /\ lineNum' = IF r.thrown = NoError THEN lineNum + 1 ELSE lineNum
  /\ UNCHANGED <<cpuVars, part1Vars, part2Vars, runnerVars, monkeyVars,
               rpsVars, moreVars>>

\* load(str) after the last line: back to the root.
LoadEnd ==
  /\ fsPc = "loading"
  /\ lineNum > 0
  /\ LET fs == changeDirectory(ThisFs, slashStr)
     IN  /\ content' = fs.content
         /\ ref' = fs.ref
         /\ parent' = fs.parent
  /\ fsPc' = "loaded"
  /\ UNCHANGED <<isListingDir, fsLine, lineNum, addResult, fsThrown>>
  /\ UNCHANGED <<cpuVars, part1Vars, part2Vars, runnerVars, monkeyVars,
               rpsVars, moreVars>>

NextFs == LoadLine \/ LoadEnd

SpecFs == Init /\ [][NextFs]_vars

\* ------------------------------------------------------- Monkey (day 11)
\* An Item object: its name and its worry level (a BigInt, here an
\* integer).
WorryItem(name, worry) == [name |-> name, worryLevel |-> worry]

\* The Monkey object as a record of its fields.
ThisMonkey ==
  [items |-> items, itemAtHand |-> itemAtHand, inspections |-> inspections,
   worryOp |-> worryOp, throwOp |-> throwOp]

InvalidWorryOperation(s) ==
  [kind |-> "Invalid worry operation string", detail |-> s]
InvalidOperator(operator) ==
  [kind |-> "Invalid operator", detail |-> operator]
NoDivisor(s) == [kind |-> "Unable to get divisor from string", detail |-> s]
NoTruthyDestination(s) ==
  [kind |-> "Unable to get truthy destination from string", detail |-> s]
NoFalsyDestination(s) ==
  [kind |-> "Unable to get falsy destination from string", detail |-> s]
NoItemAtHand == [kind |-> "No item at hand for monkey", detail |-> <<>>]
CannotConvertNaN ==
  [kind |-> "RangeError: NaN cannot be converted to a BigInt",
   detail |-> <<>>]
DivisionByZero == [kind |-> "RangeError: Division by zero", detail |-> <<>>]
NoSecondPiece ==
  [kind |-> "TypeError: Cannot read properties of undefined",
   detail |-> <<>>]

\* s.trim(): s without its leading and trailing blanks.
trim(s) ==
  LET kept == { i \in 1..Len(s) : s[i] # SP }
  IN  IF kept = {} THEN <<>>
      ELSE SubSeq(s, CHOOSE i \in kept : \A j \in kept : i <= j,
                     CHOOSE i \in kept : \A j \in kept : j <= i)

\* s.split(sep) for a separator of one character.
RECURSIVE SplitOnFrom(_, _, _, _, _)
SplitOnFrom(s, sep, i, cur, acc) ==
  IF i > Len(s) THEN Append(acc, cur)
  ELSE IF s[i] = sep THEN SplitOnFrom(s, sep, i + 1, <<>>, Append(acc, cur))
  ELSE SplitOnFrom(s, sep, i + 1, Append(cur, s[i]), acc)

splitOn(s, sep) == SplitOnFrom(s, sep, 1, <<>>, <<>>)

\* Number(s) for the strings met here: blanks around are dropped, the
\* empty string is 0, an optionally signed run of digits is its value, and
\* anything else is NaN. (Fractions, exponents, radix prefixes and
\* Infinity do not occur in the strings below.)
NumberOf(s) ==
  LET t == trim(s)
      signed == Len(t) > 0 /\ t[1] \in {"-", "+"}
      digits == IF signed THEN SubSeq(t, 2, Len(t)) ELSE t
      r == DigitRun(digits, 1, 0, FALSE)
  IN  IF t = <<>> THEN Num(0)
      ELSE IF digits # <<>> /\ \A i \in 1..Len(digits) : digits[i] \in Digits
      THEN Num(IF t[1] = "-" THEN 0 - r.v ELSE r.v)
      ELSE NaN

\* tokens.pop() on the result of split: the last piece.
pop(tokens) == tokens[Len(tokens)]

operationStr ==
  <<"O", "p", "e", "r", "a", "t", "i", "o", "n", ":">>
oldStr == <<"o", "l", "d">>

\* getWorryOperationFromStr(str): the operator and the right-hand side the
\* returned closure captures, or the error thrown.
getWorryOperationFromStr(s) ==
  LET none == [operator |-> <<>>, rightHandSide |-> <<>>]
      pieces ==
        splitOn(trim(substring(s, indexOf(s, <<":">>), Len(s))), "=")
      tokens == split(trim(pieces[2]))
  IN  IF indexOf(s, operationStr) < 0
      THEN [worryOp |-> none, thrown |-> InvalidWorryOperation(s)]
      ELSE IF Len(pieces) < 2
      THEN [worryOp |-> none, thrown |-> NoSecondPiece]
      ELSE [worryOp |-> [operator |-> TokenStr(tokens, 1),
                         rightHandSide |-> TokenStr(tokens, 2)],
            thrown |-> NoError]

\* The WorryOperation closure applied to item: the item afterwards and
\* the error thrown.
applyWorryOp(op, item) ==
  LET rhs == NumberOf(op.rightHandSide)
      operand == IF op.rightHandSide # oldStr THEN rhs.v ELSE item.worryLevel
  IN  IF op.rightHandSide # oldStr /\ rhs = NaN
      THEN [item |-> item, thrown |-> CannotConvertNaN]
      ELSE IF op.operator = <<"+">>
      THEN [item |-> [item EXCEPT !.worryLevel = @ + operand],
            thrown |-> NoError]
      ELSE IF op.operator = <<"*">>
      THEN [item |-> [item EXCEPT !.worryLevel = @ * operand],
            thrown |-> NoError]
      ELSE [item |-> item, thrown |-> InvalidOperator(op.operator)]

\* getThrowTestFromStr(testStr, trueResultStr, falseResultStr): the
\* divisor and the two destinations the returned closure captures, or the
\* error thrown.
getThrowTestFromStr(testStr, trueResultStr, falseResultStr) ==
  LET divisor == NumberOf(pop(split(testStr)))
      destIfTrue == NumberOf(pop(split(trueResultStr)))
      destIfFalse == NumberOf(pop(split(falseResultStr)))
      none == [divisor |-> 0, destIfTrue |-> 0, destIfFalse |-> 0]
  IN  IF divisor = NaN
      THEN [throwOp |-> none, thrown |-> NoDivisor(testStr)]
      ELSE IF destIfTrue = NaN
      THEN [throwOp |-> none, thrown |-> NoTruthyDestination(trueResultStr)]
      ELSE IF destIfFalse = NaN
      THEN [throwOp |-> none, thrown |-> NoFalsyDestination(falseResultStr)]
      ELSE [throwOp |-> [divisor |-> divisor.v, destIfTrue |-> destIfTrue.v,
                         destIfFalse |-> destIfFalse.v],
            thrown |-> NoError]

\* a % b on BigInts, b not 0: the sign is the sign of a.
BigIntRem(a, b) ==
  LET abs(n) == IF n < 0 THEN 0 - n ELSE n
      r == abs(a) % abs(b)
  IN  IF a < 0 THEN 0 - r ELSE r

\* The ThrowTest closure applied to item: the destination returned, or the
\* RangeError of a BigInt remainder by zero.
applyThrowOp(op, item) ==
  IF op.divisor = 0
  THEN [destination |-> 0, thrown |-> DivisionByZero]
  ELSE IF BigIntRem(item.worryLevel, op.divisor) = 0
  THEN [destination |-> op.destIfTrue, thrown |-> NoError]
  ELSE [destination |-> op.destIfFalse, thrown |-> NoError]

\* new Monkey(name, items, opStr, testStr, trueResultStr, falseResultStr):
\* the object, or the error thrown by one of the two parsers.
newMonkey(startingItems, opStr, testStr, trueResultStr, falseResultStr) ==
  LET w == getWorryOperationFromStr(opStr)
      t == getThrowTestFromStr(testStr, trueResultStr, falseResultStr)
  IN  IF w.thrown # NoError THEN [this |-> ThisMonkey, thrown |-> w.thrown]
      ELSE IF t.thrown # NoError
      THEN [this |-> ThisMonkey, thrown |-> t.thrown]
      ELSE [this |-> [items |-> startingItems, itemAtHand |-> <<>>,
                      inspections |-> 0, worryOp |-> w.worryOp,
                      throwOp |-> t.throwOp],
            thrown |-> NoError]

\* addItem(item).
addItem(this, item) == [this EXCEPT !.items = Append(@, item)]

\* examineItem(): the head of the queue goes to the hand, the worry
\* operation is applied to it, and the inspection is counted. (Both
\* closures are set by the constructor, so neither guard throws.)
examineItem(this) ==
  IF Len(this.items) > 0
  THEN LET r == applyWorryOp(this.worryOp, Head(this.items))
       IN  IF r.thrown # NoError
           THEN [this |-> [this EXCEPT !.items = Tail(@),
                                       !.itemAtHand = <<Head(this.items)>>],
                 thrown |-> r.thrown]
           ELSE [this |-> [this EXCEPT !.items = Tail(@),
                                       !.itemAtHand = <<r.item>>,
                                       !.inspections = @ + 1],
                 thrown |-> NoError]
  ELSE [this |-> this, thrown |-> NoError]

\* relieveWorry(): the worry level of the item at hand is divided by 3,
\* rounded down.
relieveWorry(this) ==
  IF this.itemAtHand # <<>>
  THEN [this EXCEPT !.itemAtHand =
          <<[this.itemAtHand[1] EXCEPT !.worryLevel = @ \div 3]>>]
  ELSE this

\* throwItem(): the object afterwards, the ThrownItem returned (<<>> when
\* the call throws) and the error thrown.
throwItem(this) ==
  IF this.itemAtHand = <<>>
  THEN [this |-> this, itemInAir |-> <<>>, thrown |-> NoItemAtHand]
  ELSE LET r == applyThrowOp(this.throwOp, this.itemAtHand[1])
       IN  IF r.thrown # NoError
           THEN [this |-> this, itemInAir |-> <<>>, thrown |-> r.thrown]
           ELSE [this |-> [this EXCEPT !.itemAtHand = <<>>],
                 itemInAir |-> <<[item |-> this.itemAtHand[1],
                                  destination |-> r.destination]>>,
                 thrown |-> NoError]

\* Worry levels of the items given to the monkey.
Worries == {3, 4}

StartingItems ==
  UNION { [1..n -> { WorryItem(w, w) : w \in Worries }] : n \in 0..MaxItems }

operationPrefix ==
  <<SP, SP>> \o operationStr
    \o <<SP, "n", "e", "w", SP, "=", SP, "o", "l", "d", SP>>
OpStrs ==
  { operationPrefix \o <<"+", SP, "3">>,
    operationPrefix \o <<"*", SP, "2">>,
    operationPrefix \o <<"*", SP>> \o oldStr }

testPrefix ==
  <<SP, SP, "T", "e", "s", "t", ":", SP, "d", "i", "v", "i", "s", "i", "b",
    "l", "e", SP, "b", "y", SP>>
TestStrs ==
  { testPrefix \o <<"2">>, testPrefix \o <<"3">>, testPrefix \o <<"0">>,
    testPrefix \o <<"x">> }

throwPrefix(b) ==
  <<SP, SP, SP, SP, "I", "f", SP>> \o b
    \o <<":", SP, "t", "h", "r", "o", "w", SP, "t", "o", SP, "m", "o", "n",
         "k", "e", "y", SP>>
TrueResultStrs ==
  { throwPrefix(<<"t", "r", "u", "e">>) \o <<"1">>,
    throwPrefix(<<"t", "r", "u", "e">>) \o <<"2">> }
FalseResultStrs == { throwPrefix(<<"f", "a", "l", "s", "e">>) \o <<"0">> }

\* The monkey's fields are set from m, the object after a call.
MonkeyBecomes(m) ==
  /\ items' = m.items
  /\ itemAtHand' = m.itemAtHand
  /\ inspections' = m.inspections
  /\ worryOp' = m.worryOp
  /\ throwOp' = m.throwOp

NewMonkey ==
  /\ monkeyPc = "none"
  /\ \E startingItems \in StartingItems, opStr \in OpStrs,
        testStr \in TestStrs, trueResultStr \in TrueResultStrs,
        falseResultStr \in FalseResultStrs :
       LET r == newMonkey(startingItems, opStr, testStr, trueResultStr,
                          falseResultStr)
       IN  /\ MonkeyBecomes(r.this)
           /\ monkeyThrown' = r.thrown
           /\ monkeyPc' = IF r.thrown = NoError THEN "built" ELSE "failed"
  /\ lastCall' = "constructor"
  /\ UNCHANGED <<itemInAir, calls>>
  /\ UNCHANGED <<cpuVars, part1Vars, part2Vars, runnerVars, fsVars, rpsVars,
               moreVars>>

AddItem ==
  /\ monkeyPc = "built" /\ calls < MaxCalls
  /\ \E w \in Worries : MonkeyBecomes(addItem(ThisMonkey, WorryItem(w, w)))
  /\ monkeyThrown' = NoError
  /\ lastCall' = "addItem"
  /\ calls' = calls + 1
  /\ UNCHANGED <<itemInAir, monkeyPc>>
  /\ UNCHANGED <<cpuVars, part1Vars, part2Vars, runnerVars, fsVars, rpsVars,
               moreVars>>

ExamineItem ==
  /\ monkeyPc = "built" /\ calls < MaxCalls
  /\ LET r == examineItem(ThisMonkey)
     IN  MonkeyBecomes(r.this) /\ monkeyThrown' = r.thrown
  /\ lastCall' = "examineItem"
  /\ calls' = calls + 1
  /\ UNCHANGED <<itemInAir, monkeyPc>>
  /\ UNCHANGED <<cpuVars, part1Vars, part2Vars, runnerVars, fsVars, rpsVars,
               moreVars>>

RelieveWorry ==
  /\ monkeyPc = "built" /\ calls < MaxCalls
  /\ MonkeyBecomes(relieveWorry(ThisMonkey))
  /\ monkeyThrown' = NoError
  /\ lastCall' = "relieveWorry"
  /\ calls' = calls + 1
  /\ UNCHANGED <<itemInAir, monkeyPc>>
  /\ UNCHANGED <<cpuVars, part1Vars, part2Vars, runnerVars, fsVars, rpsVars,
               moreVars>>

ThrowItem ==
  /\ monkeyPc = "built" /\ calls < MaxCalls
  /\ LET r == throwItem(ThisMonkey)
     IN  /\ MonkeyBecomes(r.this)
         /\ itemInAir' = r.itemInAir
         /\ monkeyThrown' = r.thrown
  /\ lastCall' = "throwItem"
  /\ calls' = calls + 1
  /\ UNCHANGED monkeyPc
  /\ UNCHANGED <<cpuVars, part1Vars, part2Vars, runnerVars, fsVars, rpsVars,
               moreVars>>

NextMonkey ==
  NewMonkey \/ AddItem \/ ExamineItem \/ RelieveWorry \/ ThrowItem

SpecMonkey == Init /\ [][NextMonkey]_vars

\* ------------------------------------------ ElfRockPaperScissors (day 2)
\* The members of the enums PlayType and OutcomeType, by their numbers.
UNKNOWN == Num(0)
ROCK == Num(1)
PAPER == Num(2)
SCISSORS == Num(3)
PlayType == {UNKNOWN, ROCK, PAPER, SCISSORS}

WIN == Num(1)
LOSS == Num(2)
DRAW == Num(3)
OutcomeType == {UNKNOWN, WIN, LOSS, DRAW}

\* Each play to the play it beats.
WIN_MAP == (ROCK :> SCISSORS) @@ (PAPER :> ROCK) @@ (SCISSORS :> PAPER)

\* Each play to the play it loses from.
LOSE_MAP == (SCISSORS :> ROCK) @@ (ROCK :> PAPER) @@ (PAPER :> SCISSORS)

\* map.get(key): undefined for a key the map does not have.
get(map, key) == IF key \in DOMAIN map THEN map[key] ELSE Undefined

CannotUseUnknown ==
  [kind |-> "Cannot use desired outcome 'UNKNOWN'", detail |-> <<>>]

\* Mutant of determineWinner: a play is taken to win when it is the play
\* the second one beats.
determineWinner_Reversed(first, second) ==
  IF first = second THEN 0
  ELSE IF get(WIN_MAP, second) = first THEN 1
  ELSE 0 - 1

\* determineWinner(first, second): 1 if the first play wins, -1 if the
\* second wins, 0 for a draw.
determineWinner(first, second) ==
  IF first = second THEN 0
  ELSE IF get(WIN_MAP, first) = second THEN 1
  ELSE 0 - 1

\* determineCorrectPlay(rivalPlay, desiredOutcome): the play returned, or
\* the error thrown for an outcome that is none of the three.
determineCorrectPlay(rival, desired) ==
  LET correctPlayForRivalWin == get(WIN_MAP, rival)
      correcPlayForRivalLoss == get(LOSE_MAP, rival)
  IN  IF desired = WIN
      THEN [desiredPlay |-> correcPlayForRivalLoss, thrown |-> NoError]
      ELSE IF desired = LOSS
      THEN [desiredPlay |-> correctPlayForRivalWin, thrown |-> NoError]
      ELSE IF desired = DRAW
      THEN [desiredPlay |-> rival, thrown |-> NoError]
      ELSE [desiredPlay |-> UNKNOWN, thrown |-> CannotUseUnknown]

\* part1 at the end of a line: roundOutcome = determineWinner(yourPlay,
\* rivalPlay), for any two members of PlayType.
DetermineWinner ==
  /\ \E first \in PlayType, second \in PlayType :
       /\ firstPlay' = first
       /\ secondPlay' = second
       /\ roundOutcome' = determineWinner(first, second)
  /\ rpsThrown' = NoError
  /\ UNCHANGED <<rivalPlay, desiredOutcome, yourPlay>>
  /\ UNCHANGED <<cpuVars, part1Vars, part2Vars, runnerVars, fsVars,
                 monkeyVars, moreVars>>

\* part2 at the end of a line: yourPlay = determineCorrectPlay(rivalPlay,
\* desiredOutcome), for any rival play and any outcome.
DetermineCorrectPlay ==
  /\ \E rival \in PlayType, desired \in OutcomeType :
       LET r == determineCorrectPlay(rival, desired)
       IN  /\ rivalPlay' = rival
           /\ desiredOutcome' = desired
           /\ yourPlay' = r.desiredPlay
           /\ rpsThrown' = r.thrown
  /\ UNCHANGED <<firstPlay, secondPlay, roundOutcome>>
  /\ UNCHANGED <<cpuVars, part1Vars, part2Vars, runnerVars, fsVars,
                 monkeyVars, moreVars>>

NextRps == DetermineWinner \/ DetermineCorrectPlay

SpecRps == Init /\ [][NextRps]_vars

\* ------------------------------------------- the screen and long renders
\* Rows, columns and characters handed to setPixel: the edges of the
\* screen, a pixel inside it, and the first row and column off each edge.
PixelRows == {0 - 1, 0, 2, MAX_HEIGHT - 1, MAX_HEIGHT}
PixelColumns == {0 - 1, 0, 17, MAX_WIDTH - 1, MAX_WIDTH}
PixelChars == {"#", "."}

\* this.screen.setPixel(row, column, char) on the screen of a solution that
\* has not loaded its program yet.
SetPixel ==
  /\ pc = "new"
  /\ setCalls < MaxSets
  /\ \E r \in PixelRows, c \in PixelColumns, char \in PixelChars :
       LET set == setPixel(pixels, r, c, char)
       IN  /\ pixels' = set.pixels
           /\ pixelThrown' = set.thrown
           /\ pixelCall' = [row |-> r, column |-> c, char |-> char]
  /\ setCalls' = setCalls + 1
  /\ UNCHANGED <<cpuVars, part1Vars, row>>
  /\ UNCHANGED <<runnerVars, fsVars, monkeyVars, rpsVars, scanVars,
                 businessVars, crateVars>>

\* Programs that run for about MAX_WIDTH * MAX_HEIGHT cycles: a noop or
\* not, then an addx line repeated.
RenderTexts ==
  { prefix \o [i \in 1..(n * Len(unit)) |-> unit[((i - 1) % Len(unit)) + 1]] :
      prefix \in {<<>>, Join(<<noopStr>>)},
      unit \in { Join(<<addxStr \o <<SP, "3">>>>),
                 Join(<<addxStr \o <<SP, "-", "5">>>>) },
      n \in (MaxUnits - 3)..MaxUnits }

\* part2 up to the loop, on a screen no one has written to.
RenderLoad ==
  /\ setCalls = 0
  /\ \E text \in RenderTexts : LoadText(text)
  /\ loopPc' = "loop"
  /\ UNCHANGED <<runningTotal, part2Vars, otherVars>>

NextRender == SetPixel \/ RenderLoad \/ Part2Iterate

SpecRender == Init /\ [][NextRender]_vars

\* ------------------------------------------- ElfTuningTrouble (day 6)
\* The locals of the scan as a record.
ThisScan ==
  [occurrences |-> occurrences, history |-> history, queue |-> queue,
   i |-> scanI]

\* map.delete(key).
delete(map, key) == [k \in DOMAIN map \ {key} |-> map[k]]

\* map.set(key, value).
set(map, key, value) == (key :> value) @@ map

\* Mutant of shiftOut: the removed character is deleted from history
\* whatever its count.
shiftOut_AlwaysDeletes(sc) ==
  LET removedChar == Head(sc.queue)
      counted == set(sc.occurrences, removedChar,
                     sc.occurrences[removedChar] - 1)
  IN  [sc EXCEPT !.queue = Tail(sc.queue),
                 !.history = @ \ {removedChar},
                 !.occurrences = IF counted[removedChar] < 1
                                 THEN delete(counted, removedChar)
                                 ELSE counted]

\* The head of the queue is shifted out and its count lowered; it leaves
\* history and occurrences when the count falls below 1.
shiftOut(sc) ==
  LET removedChar == Head(sc.queue)
      counted == set(sc.occurrences, removedChar,
                     sc.occurrences[removedChar] - 1)
  IN  IF counted[removedChar] < 1
      THEN [sc EXCEPT !.queue = Tail(sc.queue),
                      !.history = @ \ {removedChar},
                      !.occurrences = delete(counted, removedChar)]
      ELSE [sc EXCEPT !.queue = Tail(sc.queue), !.occurrences = counted]

\* The character is pushed on the queue, added to history and counted.
keepAdding(sc, char) ==
  [sc EXCEPT !.queue = Append(@, char),
             !.history = @ \cup {char},
             !.occurrences =
               set(@, char,
                   IF char \in DOMAIN sc.occurrences
                      /\ sc.occurrences[char] # 0
                   THEN sc.occurrences[char] + 1 ELSE 1)]

\* One iteration of the loop at i < inputStr.length: the locals afterwards
\* and whether the loop was left by break.
iteration(sc, s, n) ==
  IF Len(sc.queue) = n /\ Cardinality(sc.history) = n
  THEN [sc |-> sc, break |-> TRUE]
  ELSE LET shifted == IF Len(sc.queue) = n THEN shiftOut(sc) ELSE sc
       IN  [sc |-> [keepAdding(shifted, s[sc.i + 1]) EXCEPT !.i = @ + 1],
            break |-> FALSE]

\* Inputs of part 1: every string over four letters up to MaxScanLen.
Letters == {"a", "b", "c", "d"}
ShortInputs == UNION { [1..n -> Letters] : n \in 0..MaxScanLen }

\* Inputs of part 2: a few repeated letters, then a stretch of the
\* alphabet, then its first letter again or not.
alphabet ==
  <<"a", "b", "c", "d", "e", "f", "g", "h", "i", "j", "k", "l", "m", "n",
    "o">>
LongInputs ==
  { u \o SubSeq(alphabet, 1, k) \o v :
      u \in UNION { [1..n -> {"a", "c"}] : n \in 0..MaxPrefix },
      k \in 12..15, v \in {<<>>, <<"a">>} }

\* part1 or part2 up to the loop, on one of the inputs.
ScanStart ==
  /\ scanPc = "none"
  /\ \E n \in {4, 14} :
       /\ sequenceLength' = n
       /\ inputStr' \in (IF n = 4 THEN ShortInputs ELSE LongInputs)
  /\ occurrences' = <<>>
  /\ history' = {}
  /\ queue' = <<>>
  /\ scanI' = 0
  /\ scanPc' = "scanning"
  /\ UNCHANGED <<cpuVars, part1Vars, part2Vars, runnerVars, fsVars,
                 monkeyVars, rpsVars, businessVars, crateVars, screenVars>>

\* One pass of the for loop: the test i < inputStr.length, then the body.
ScanIterate ==
  /\ scanPc = "scanning"
  /\ IF scanI < Len(inputStr)
     THEN LET r == iteration(ThisScan, inputStr, sequenceLength)
          IN  /\ occurrences' = r.sc.occurrences
              /\ history' = r.sc.history
              /\ queue' = r.sc.queue
              /\ scanI' = r.sc.i
              /\ scanPc' = IF r.break THEN "done" ELSE "scanning"
     ELSE /\ scanPc' = "done"
          /\ UNCHANGED <<occurrences, history, queue, scanI>>
  /\ UNCHANGED <<inputStr, sequenceLength>>
  /\ UNCHANGED <<cpuVars, part1Vars, part2Vars, runnerVars, fsVars,
                 monkeyVars, rpsVars, businessVars, crateVars, screenVars>>

NextScan == ScanStart \/ ScanIterate

SpecScan == Init /\ [][NextScan]_vars

\* ------------------------- ElfMonkeyInTheMiddle.calculateMonkeyBusiness
\* Mutant of visit: a new largest count does not hand the old one down
\* to second.
visit_NoHandDown(l, s, inspectionsMade) ==
  IF inspectionsMade >= l
  THEN [largest |-> inspectionsMade, second |-> s]
  ELSE IF inspectionsMade > s
  THEN [largest |-> l, second |-> inspectionsMade]
  ELSE [largest |-> l, second |-> s]

\* The body of the loop for one monkey: the locals largest and second
\* afterwards.
visit(l, s, inspectionsMade) ==
  IF inspectionsMade >= l
  THEN [largest |-> inspectionsMade, second |-> l]
  ELSE IF inspectionsMade > s
  THEN [largest |-> l, second |-> inspectionsMade]
  ELSE [largest |-> l, second |-> s]

\* The inspection counts of the monkeys, in the order of this.monkeys.
MonkeyLists == UNION { [1..n -> 0..MaxCount] : n \in 0..MaxMonkeys }

\* calculateMonkeyBusiness up to the loop, on some list of monkeys.
BusinessStart ==
  /\ businessPc = "none"
  /\ monkeys' \in MonkeyLists
  /\ largest' = 0
  /\ secondLargest' = 0
  /\ monkeyIndex' = 0
  /\ businessPc' = "looping"
  /\ UNCHANGED monkeyBusiness
  /\ UNCHANGED <<cpuVars, part1Vars, part2Vars, runnerVars, fsVars,
                 monkeyVars, rpsVars, scanVars, crateVars, screenVars>>

\* The loop visits the next monkey.
BusinessVisit ==
  /\ businessPc = "looping"
  /\ monkeyIndex < Len(monkeys)
  /\ LET r == visit(largest, secondLargest, monkeys[monkeyIndex + 1])
     IN  largest' = r.largest /\ secondLargest' = r.second
  /\ monkeyIndex' = monkeyIndex + 1
  /\ UNCHANGED <<monkeys, monkeyBusiness, businessPc>>
  /\ UNCHANGED <<cpuVars, part1Vars, part2Vars, runnerVars, fsVars,
                 monkeyVars, rpsVars, scanVars, crateVars, screenVars>>

\* After the last monkey: return largest * second.
BusinessReturn ==
  /\ businessPc = "looping"
  /\ monkeyIndex = Len(monkeys)
  /\ monkeyBusiness' = largest * secondLargest
  /\ businessPc' = "returned"
  /\ UNCHANGED <<monkeys, largest, secondLargest, monkeyIndex>>
  /\ UNCHANGED <<cpuVars, part1Vars, part2Vars, runnerVars, fsVars,
                 monkeyVars, rpsVars, scanVars, crateVars, screenVars>>

NextBusiness == BusinessStart \/ BusinessVisit \/ BusinessReturn

SpecBusiness == Init /\ [][NextBusiness]_vars

\* ------------------------------------------------ CrateStackSet (day 5)
CRATE_MOVER_9000 == 0
CRATE_MOVER_9001 == 1

UnsupportedCraneVersion(version) ==
  [kind |-> "Unsupported crane version", detail |-> <<version>>]

\* The CRATE_MOVER_9000 loop from its pass i on: each pass pops a crate
\* off the source, if it has one, and pushes it on the destination.
RECURSIVE moveOneByOne(_, _, _, _, _)
moveOneByOne(st, src, dest, qty, i) ==
  IF ~(qty.kind = "number" /\ i < qty.v) THEN st
  ELSE IF Len(st[src]) > 0
  THEN LET crate == st[src][Len(st[src])]
           popped == [st EXCEPT ![src] = SubSeq(@, 1, Len(@) - 1)]
       IN  moveOneByOne([popped EXCEPT ![dest] = Append(@, crate)],
                        src, dest, qty, i + 1)
  ELSE moveOneByOne(st, src, dest, qty, i + 1)

\* Mutant of extract: a popped crate is put at the end of the container.
RECURSIVE extract_Appends(_, _, _, _, _)
extract_Appends(st, src, qty, i, container) ==
  IF ~(qty.kind = "number" /\ i < qty.v)
  THEN [stacks |-> st, container |-> container]
  ELSE IF Len(st[src]) > 0
  THEN extract_Appends([st EXCEPT ![src] = SubSeq(@, 1, Len(@) - 1)],
                       src, qty, i + 1,
                       Append(container, st[src][Len(st[src])]))
  ELSE extract_Appends(st, src, qty, i + 1, container)

\* The first CRATE_MOVER_9001 loop from its pass i on: each pass pops a
\* crate off the source, if it has one, and puts it at the head of the
\* container.
RECURSIVE extract(_, _, _, _, _)
extract(st, src, qty, i, container) ==
  IF ~(qty.kind = "number" /\ i < qty.v)
  THEN [stacks |-> st, container |-> container]
  ELSE IF Len(st[src]) > 0
  THEN extract([st EXCEPT ![src] = SubSeq(@, 1, Len(@) - 1)],
               src, qty, i + 1, <<st[src][Len(st[src])]>> \o container)
  ELSE extract(st, src, qty, i + 1, container)

\* apply(move, craneVersion): the stacks afterwards and the error thrown.
apply(st, mv, version) ==
  LET qty == mv.quantity
      src == mv.source
      dest == mv.destination
  IN  IF src \in DOMAIN st /\ dest \in DOMAIN st
      THEN IF version = CRATE_MOVER_9000
           THEN [stacks |-> moveOneByOne(st, src, dest, qty, 0),
                 thrown |-> NoError]
           ELSE IF version = CRATE_MOVER_9001
           THEN LET e == extract(st, src, qty, 0, <<>>)
                IN  [stacks |-> [e.stacks EXCEPT ![dest] = @ \o e.container],
                     thrown |-> NoError]
           ELSE [stacks |-> st, thrown |-> UnsupportedCraneVersion(version)]
      ELSE [stacks |-> st, thrown |-> NoError]

\* The crates, and the stack sets the constructor builds from a drawing of
\* the first n of them in 1..MaxStacks columns.
crateNames == <<"A", "B", "C">>

StackOf(column, c, n) ==
  LET mine == { k \in 1..n : column[k] = c }
      RECURSIVE Pile(_)
      Pile(k) == IF k > n THEN <<>>
                 ELSE IF k \in mine THEN <<crateNames[k]>> \o Pile(k + 1)
                 ELSE Pile(k + 1)
  IN  Pile(1)

StackSets ==
  { [c \in 1..cols |-> StackOf(column, c, n)] :
      <<cols, n, column>> \in
        { <<cols, n, column>> \in
            (1..MaxStacks) \X (0..Len(crateNames))
              \X UNION { [1..n -> 1..MaxStacks] :
                           n \in 0..Len(crateNames) } :
            /\ DOMAIN column = 1..n
            /\ \A k \in 1..n : column[k] <= cols } }

\* The move commands load may parse: parseInt gives NaN, a negative
\* number or a count for the quantity, and stack numbers that exist or not.
MoveCommands ==
  [quantity : {NaN} \cup { Num(q) : q \in (0 - 1)..MaxQty },
   source : 1..(MaxStacks + 1), destination : 1..(MaxStacks + 1)]

NewCrateStackSet ==
  /\ cratePc = "none"
  /\ stacks' \in StackSets
  /\ cratePc' = "built"
  /\ UNCHANGED <<move, craneVersion, crateThrown>>
  /\ UNCHANGED <<cpuVars, part1Vars, part2Vars, runnerVars, fsVars,
                 monkeyVars, rpsVars, scanVars, businessVars, screenVars>>

Apply ==
  /\ cratePc = "built"
  /\ \E mv \in MoveCommands,
        version \in {CRATE_MOVER_9000, CRATE_MOVER_9001} :
       LET r == apply(stacks, mv, version)
       IN  /\ stacks' = r.stacks
           /\ crateThrown' = r.thrown
           /\ move' = mv
           /\ craneVersion' = version
  /\ UNCHANGED cratePc
  /\ UNCHANGED <<cpuVars, part1Vars, part2Vars, runnerVars, fsVars,
                 monkeyVars, rpsVars, scanVars, businessVars, screenVars>>

NextCrates == NewCrateStackSet \/ Apply

SpecCrates == Init /\ [][NextCrates]_vars

\* ------------------------------------------------- reference quantities
\* The instruction sequence a fresh CPU holds after loading str.
Program == loadLoop(str, 1, <<>>, <<>>).instructions

\* Ticks an instruction occupies: the fetch tick plus its busy ticks.
Latency(i) == IF i.opcode = ADDX THEN 2 ELSE 1

\* Number of ticks made before instruction k of the program is fetched.
RECURSIVE Start(_)
Start(k) == IF k <= 1 THEN 0 ELSE Start(k - 1) + Latency(Program[k - 1])

\* Ticks needed to fetch and commit the whole program.
Duration == Start(Len(Program) + 1)

\* Register X before instruction k: 1 plus the operands of earlier addx.
RECURSIVE Pre(_)
Pre(k) ==
  IF k <= 1 THEN Num(1)
  ELSE IF Program[k - 1].opcode = ADDX
       THEN Add(Pre(k - 1), Program[k - 1].arg)
       ELSE Pre(k - 1)

\* The lines of a newline-terminated text.
RECURSIVE LinesFrom(_, _, _, _)
LinesFrom(s, i, cur, acc) ==
  IF i > Len(s) THEN acc
  ELSE IF s[i] = NL THEN LinesFrom(s, i + 1, <<>>, Append(acc, cur))
  ELSE LinesFrom(s, i + 1, Append(cur, s[i]), acc)

TextLines == LinesFrom(str, 1, <<>>, <<>>)

\* The characters of a line before its first space.
FirstToken(line) ==
  LET stops == { i \in 1..Len(line) : line[i] = SP }
      end == IF stops = {} THEN Len(line)
             ELSE (CHOOSE i \in stops : \A j \in stops : i <= j) - 1
  IN  SubSeq(line, 1, end)

\* Positions of the lines whose first token is neither noop nor addx.
UnknownLines ==
  { n \in 1..Len(TextLines) : FirstToken(TextLines[n]) \notin {noopStr, addxStr} }

FirstUnknown == CHOOSE n \in UnknownLines : \A m \in UnknownLines : n <= m

\* A line is an opcode alone for noop, an opcode and an integer for addx.
IsInteger(tok) ==
  LET body == IF tok # <<>> /\ tok[1] = "-" THEN Tail(tok) ELSE tok
  IN  body # <<>> /\ \A i \in 1..Len(body) : body[i] \in Digits

OperandMatches(line) ==
  \/ line = noopStr
  \/ /\ Len(line) > Len(addxStr) + 1
     /\ SubSeq(line, 1, Len(addxStr) + 1) = addxStr \o <<SP>>
     /\ IsInteger(SubSeq(line, Len(addxStr) + 2, Len(line)))

\* A step of the behaviour that is a tick() call.
TickStep == ticks' = ticks + 1

\* ---------------------------------------------------------------- claims
\* C1: an addx takes effect only after its full latency. For every addx k
\* of the loaded program, register X equals the value before the
\* instruction both when k is about to be fetched and after the tick that
\* fetched it, and equals that value plus the operand after the next tick.
C1_EffectAfterFullLatency ==
  (pc = "loaded" /\ thrown = NoError) =>
    \A k \in 1..Len(Program) :
      Program[k].opcode = ADDX =>
        /\ cycle \in {Start(k), Start(k) + 1} => getRegisterX(This) = Pre(k)
        /\ cycle = Start(k) + 2 =>
             getRegisterX(This) = Add(Pre(k), Program[k].arg)

\* An addx 3 that is not the first instruction is mid-latency: fetched,
\* busy, and X still holds the value it had before the fetch.
C1_Witness ==
  /\ pc = "loaded"
  /\ \E k \in 2..Len(Program) :
       /\ Program[k] = Instruction(ADDX, Num(3))
       /\ cycle = Start(k) + 1
       /\ busy
       /\ Pre(k) = Num(-4)
       /\ getRegisterX(This) = Num(-4)

\* The text of the end-to-end scenario: noop, addx 3, addx -5.
Scenario ==
  Join(<<noopStr, addxStr \o <<SP, "3">>, addxStr \o <<SP, "-", "5">>>>)

\* C2: on noop, addx 3, addx -5 with X starting at 1, X is 1, 1, 4, 4, -1
\* after ticks 1..5, and hasAdditionalWork() is true after ticks 1..4 and
\* false after tick 5.
C2_ScenarioTrace ==
  (pc = "loaded" /\ str = Scenario) =>
    /\ ticks = 0 => getRegisterX(This) = Num(1)
    /\ ticks = 1 => getRegisterX(This) = Num(1) /\ hasAdditionalWork(This)
    /\ ticks = 2 => getRegisterX(This) = Num(1) /\ hasAdditionalWork(This)
    /\ ticks = 3 => getRegisterX(This) = Num(4) /\ hasAdditionalWork(This)
    /\ ticks = 4 => getRegisterX(This) = Num(4) /\ hasAdditionalWork(This)
    /\ ticks = 5 => getRegisterX(This) = Num(-1) /\ ~hasAdditionalWork(This)

C2_Witness ==
  /\ pc = "loaded"
  /\ str = Scenario
  /\ ticks = 5
  /\ getRegisterX(This) = Num(-1)
  /\ ~hasAdditionalWork(This)

\* C3: every tick() adds exactly one to the cycle counter, whatever the
\* engine state, so getCycle() is the number of tick() calls made.
C3_CycleCountsTicks == getCycle(This) = ticks

\* Ticks were made in all three engine states: the program has an addx
\* (a BUSY tick), and more ticks were made than the program needs (an
\* IDLE tick on an empty queue).
C3_Witness ==
  /\ pc = "loaded"
  /\ \E k \in 1..Len(Program) : Program[k].opcode = ADDX
  /\ ticks >= Duration + 2
  /\ getCycle(This) = ticks

\* C4: after a successful load hasAdditionalWork() is true exactly while
\* the program's total latency has not elapsed, which is exactly when the
\* queue is non-empty or an instruction has latency remaining.
C4_WorkUntilLatencyElapsed ==
  (pc = "loaded" /\ thrown = NoError) =>
    /\ hasAdditionalWork(This) <=> cycle < Duration
    /\ hasAdditionalWork(This) <=> (instructions # <<>> \/ opCount > 0)

\* The last instruction is an addx that has been fetched but not yet
\* committed: the queue is empty and there is still work.
C4_Witness ==
  /\ pc = "loaded"
  /\ Program[Len(Program)].opcode = ADDX
  /\ cycle = Duration - 1
  /\ instructions = <<>>
  /\ hasAdditionalWork(This)

\* C5: the in-flight slot queuedOp is occupied if and only if the engine
\* is BUSY: the committing tick clears it when it returns to IDLE.
C5_SlotOccupiedIffBusy == (queuedOp # null) <=> busy

\* C6: load fails on an addx line without an integer operand and on a noop
\* line with an operand, so every queued or in-flight instruction carries
\* an operand exactly when its opcode requires one.
C6_OperandIffRequired ==
  /\ pc = "loaded" =>
       \A n \in 1..Len(TextLines) : OperandMatches(TextLines[n])
  /\ \A n \in 1..Len(instructions) :
       IF instructions[n].opcode = ADDX
       THEN instructions[n].arg.kind = "number"
       ELSE instructions[n].arg = Undefined

\* C7: a load that fails leaves the engine as it was before the call: the
\* queue holds none of the instructions of the lines before the bad one.
C7_FailedLoadLeavesNoState ==
  pc = "failed" =>
    /\ instructions = <<>>
    /\ registerFile = [X |-> Num(1)]
    /\ ~busy /\ opCount = 0 /\ queuedOp = null /\ cycle = 0

\* C8: load fails on every text with a line whose first token is neither
\* noop nor addx; the error is raised at the first such line (it names
\* that line's command, after exactly the earlier lines were decoded) and
\* before any tick.
C8_UnknownCommandFailsLoad ==
  (pc # "new" /\ UnknownLines # {}) =>
    /\ pc = "failed"
    /\ thrown = UnsupportedCommand(FirstToken(TextLines[FirstUnknown]))
    /\ Len(instructions) = FirstUnknown - 1
    /\ ticks = 0 /\ cycle = 0

\* A load failed at the third line, after two well-formed lines.
C8_Witness ==
  /\ pc = "failed"
  /\ Len(TextLines) = 3
  /\ FirstUnknown = 3
  /\ thrown = UnsupportedCommand(<<"f", "o", "o">>)

\* C9: after a successful load tick() never throws, neither at fetch nor
\* at commit, however many ticks are made.
C9_TickNeverThrows == pc = "loaded" => thrown = NoError

\* An addx was fetched and committed and ticks went on after the queue was
\* exhausted, without an error.
C9_Witness ==
  /\ pc = "loaded"
  /\ \E k \in 1..Len(Program) : Program[k].opcode = ADDX
  /\ ticks > Duration
  /\ ticks = cycle
  /\ thrown = NoError

\* C10: a tick() that starts BUSY leaves the instruction queue as it was.
C10_BusyTickKeepsQueue ==
  [][(busy /\ TickStep) => instructions' = instructions]_vars

\* An addx has just been committed by a BUSY tick while instructions were
\* still waiting in the queue.
C10_Witness ==
  /\ pc = "loaded"
  /\ \E k \in 1..Len(Program) :
       /\ Program[k].opcode = ADDX
       /\ cycle = Start(k) + 2
       /\ k < Len(Program)
       /\ instructions = SubSeq(Program, k + 1, Len(Program))

\* Number of instructions of the program committed after c ticks.
Committed(c) ==
  Cardinality({ k \in 1..Len(Program) : Start(k) + Latency(Program[k]) <= c })

\* Number of instructions of the program fetched after c ticks.
Fetched(c) == Cardinality({ k \in 1..Len(Program) : Start(k) < c })

\* Register X after c ticks of an undisturbed run of the program.
ExpectedX(c) == Pre(Committed(c) + 1)

\* A step that calls the query accessors: the driver makes no tick.
QueryStep == pc = "loaded" /\ pc' = "loaded" /\ ticks' = ticks

\* C11: the query accessors change no engine field; called again before
\* the next tick they return the same values; and with queries interleaved
\* the ticks produce the trace of an undisturbed run.
C11_QueriesAreReadOnly ==
  /\ [][QueryStep =>
          /\ UNCHANGED cpuFields
          /\ observed.at = ticks => observed' = observed]_vars
  /\ [](pc = "loaded" =>
          /\ getRegisterX(This) = ExpectedX(ticks)
          /\ getCycle(This) = ticks
          /\ instructions =
               SubSeq(Program, Fetched(ticks) + 1, Len(Program)))

\* The accessors were called mid-latency, after an earlier query and a
\* tick, with instructions still queued.
C11_Witness ==
  /\ pc = "loaded"
  /\ busy
  /\ instructions # <<>>
  /\ ticks >= 2
  /\ observed.at = ticks
  /\ observed.x = getRegisterX(This)
  /\ observed.work

\* The loaded program consists of noop instructions only.
OnlyNoops == \A k \in 1..Len(Program) : Program[k].opcode = NOOP

\* C12: on a program of zero-latency instructions only, each tick consumes
\* one instruction: after N <= length ticks N instructions are dequeued,
\* the engine is IDLE and X is the fold of their effects over 1.
C12_NoCycleWasted ==
  (pc = "loaded" /\ OnlyNoops /\ ticks <= Len(Program)) =>
    /\ instructions = SubSeq(Program, ticks + 1, Len(Program))
    /\ ~busy
    /\ thrown = NoError
    /\ getRegisterX(This) = Num(1)

\* Three noops have been consumed by three ticks.
C12_Witness ==
  /\ pc = "loaded"
  /\ OnlyNoops
  /\ Len(Program) = 3
  /\ ticks = 3
  /\ instructions = <<>>

\* C13: a tick() on an IDLE engine with an empty queue changes nothing
\* but the cycle counter, which grows by one.
C13_IdleEmptyTickIsNoOp ==
  [][(TickStep /\ ~busy /\ instructions = <<>>) =>
       /\ UNCHANGED <<registerFile, busy, opCount, queuedOp, instructions>>
       /\ cycle' = cycle + 1]_vars

\* Two ticks have been made past the end of a program that ended with an
\* addx: the engine is idle, the queue empty, X as the addx left it.
C13_Witness ==
  /\ pc = "loaded"
  /\ Program[Len(Program)].opcode = ADDX
  /\ cycle = Duration + 2
  /\ ~busy
  /\ instructions = <<>>
  /\ queuedOp # null
  /\ getRegisterX(This) = ExpectedX(Duration)

\* Register X after c ticks on program P from instruction k on, X being
\* x before instruction k: the sequential fold with latencies.
RECURSIVE RefX(_, _, _, _)
RefX(P, k, c, x) ==
  IF k > Len(P) \/ c < Latency(P[k]) THEN x
  ELSE RefX(P, k + 1, c - Latency(P[k]),
            IF P[k].opcode = ADDX THEN Add(x, P[k].arg) ELSE x)

\* Ticks needed to run program P to the end.
RECURSIVE RefDuration(_, _)
RefDuration(P, k) ==
  IF k > Len(P) THEN 0 ELSE Latency(P[k]) + RefDuration(P, k + 1)

\* The checked cycles in increasing order.
CheckedInOrder == <<20, 60, 100, 140, 180, 220>>

\* Sum of c times the value of X after c - 1 ticks over the checked
\* cycles c <= n, from the i-th checked cycle on.
RECURSIVE SampleSum(_, _, _)
SampleSum(P, i, n) ==
  IF i > Len(CheckedInOrder) \/ CheckedInOrder[i] > n THEN Num(0)
  ELSE Add(Mul(Num(CheckedInOrder[i]),
               RefX(P, 1, CheckedInOrder[i] - 1, Num(1))),
           SampleSum(P, i + 1, n))

\* C14: part1 samples before commit. Its total is the sum over the checked
\* cycles c reached so far of c times the value X has after c - 1 ticks,
\* the loop makes exactly as many ticks as the program needs, and the
\* engine is in the state the ticks alone would give.
C14_SamplesBeforeCommit ==
  (pc = "loaded" /\ loopPc # "none") =>
    LET P == Program
    IN  /\ runningTotal = SampleSum(P, 1, ticks)
        /\ getRegisterX(This) = RefX(P, 1, ticks, Num(1))
        /\ getCycle(This) = ticks
        /\ loopPc = "done" <=> ticks = RefDuration(P, 1)

\* A run of 60 ticks or more is over; cycles 20 and 60 were sampled at
\* different register values and the total is a number other than 0.
C14_Witness ==
  /\ loopPc = "done"
  /\ ticks >= 60
  /\ RefX(Program, 1, 19, Num(1)) # RefX(Program, 1, 59, Num(1))
  /\ RefX(Program, 1, 19, Num(1)) # RefX(Program, 1, 20, Num(1))
  /\ runningTotal.kind = "number"
  /\ runningTotal # Num(0)

\* The value of X during each cycle of program P from instruction k on
\* (element j is the value after j - 1 ticks), X being x before k.
RECURSIVE XDuring(_, _, _)
XDuring(P, k, x) ==
  IF k > Len(P) THEN <<>>
  ELSE IF P[k].opcode = ADDX
       THEN <<x, x>> \o XDuring(P, k + 1, Add(x, P[k].arg))
       ELSE <<x>> \o XDuring(P, k + 1, x)

\* The symbol the renderer owes to the k-th rendered cycle, x being the
\* register value before that cycle's tick.
SymbolFor(k, x) ==
  IF x.kind = "number" /\ (k % 40) - x.v \in {0 - 1, 0, 1} THEN "#" ELSE "."

\* C15: the k-th rendered cycle (k ticks already made) writes at column
\* k mod 40 of row floor(k / 40), the row advancing when the column wraps
\* to 0, and writes '#' if the column is within 1 of the value X has before
\* that cycle's tick and '.' otherwise; pixels of later cycles are blank,
\* and a run that fits the screen draws without error.
C15_PixelsAddressedByCycle ==
  (pc = "loaded" /\ loopPc # "none") =>
    LET T == XDuring(Program, 1, Num(1))
    IN  /\ Len(T) <= 40 * 6 => thrown = NoError
        /\ loopPc = "done" /\ thrown = NoError => ticks = Len(T)
        /\ \A k \in 0..(40 * 6 - 1) :
             pixels[k \div 40][k % 40] =
               IF k < ticks THEN SymbolFor(k, T[k + 1]) ELSE " "
        /\ ticks >= 1 => row = (ticks - 1) \div 40

\* The renderer has wrapped into row 1, and in row 0 it has drawn the
\* sprite away from its initial position as well as pixels off the sprite.
C15_Witness ==
  /\ loopPc = "done"
  /\ ticks > 45
  /\ row = 1
  /\ pixels[1][5] = "."
  /\ pixels[1][39] = " "
  /\ \E c \in 3..39 : pixels[0][c] = "#"
  /\ \E c \in 0..39 : pixels[0][c] = "."

\* A step that calls the runner.
RunStep == runs' = runs + 1

\* C16: run(p) with 1 <= p <= number of parts invokes the p-th part
\* function once and no other; run() invokes part 1; for p < 1 or p above
\* the number of parts it throws and invokes nothing.
C16_RunsTheSpecifiedPartOnly ==
  [][RunStep =>
       LET p == IF runArg' = Undefined THEN 1 ELSE runArg'.v
       IN  IF p >= 1 /\ p <= Len(parts)
           THEN /\ invocations' = Append(invocations, p)
                /\ runThrown' = NoError
           ELSE /\ invocations' = invocations
                /\ runThrown' # NoError]_vars

\* A runner of three parts was called with 3, then with no argument, then
\* with 0: parts 3 and 1 ran, and the last call threw.
C16_Witness ==
  /\ Len(parts) = 3
  /\ runs = 3
  /\ invocations = <<3, 1>>
  /\ runArg = Num(0)
  /\ runThrown = NoSuchPart(0)

\* A step of load that processes one line (and may throw on it).
LoadLineStep ==
  fsPc = "loading" /\ (lineNum' = lineNum + 1 \/ fsPc' = "failed")

\* The line is a cd command with a destination; the destination.
IsCdLine(ln) ==
  Len(ln) > 5 /\ SubSeq(ln, 1, 5) = <<"$", SP, "c", "d", SP>>

CdDest(ln) == SubSeq(ln, 6, Len(ln))

\* d names a sub-folder of the current folder.
IsSubFolder(d) ==
  d \in DOMAIN content[ref] /\ content[ref][d].kind = "folder"

\* The parent in the tree of the folder at a path other than the root.
TreeParent(path) == SubSeq(path, 1, Len(path) - 1)

\* C17: changeDirectory('..') moves to the parent in the tree when the
\* current folder is not the root and stays at the root otherwise;
\* changeDirectory('/') returns to the root with an empty parent stack;
\* another destination that is not the name of a sub-folder of the
\* current folder leaves the current folder and the parent stack as they
\* were.
C17_ChangeDirectoryMoves ==
  [][(LoadLineStep /\ IsCdLine(fsLine')) =>
       LET dest == CdDest(fsLine')
       IN  IF dest = dotdotStr
           THEN IF ref # rootPath
                THEN ref' = TreeParent(ref)
                ELSE ref' = rootPath /\ parent' = parent
           ELSE IF dest = slashStr
           THEN ref' = rootPath /\ parent' = <<>>
           ELSE IsSubFolder(dest) \/ (ref' = ref /\ parent' = parent)]_vars

\* The line is taken for a listed item: load is listing and the line has
\* no '$' in it.
IsListedLine(ln) == isListingDir /\ \A i \in 1..Len(ln) : ln[i] # "$"

\* The name of a listed item: what follows the first blank of the line.
ListedName(ln) ==
  LET blanks == { i \in 1..Len(ln) : ln[i] = SP }
      first == CHOOSE i \in blanks : \A j \in blanks : i <= j
  IN  SubSeq(ln, first + 1, Len(ln))

\* C18: add inserts the entry in the current folder and returns true when
\* the folder has no entry of that name; otherwise it returns false,
\* leaves every content map as it was, and load fails with a fatal error.
C18_AddRefusesDuplicates ==
  [][(LoadLineStep /\ IsListedLine(fsLine')) =>
       LET name == ListedName(fsLine')
           isDir == SubSeq(fsLine', 1, 3) = <<"d", "i", "r">>
       IN  IF name \notin DOMAIN content[ref]
           THEN /\ addResult'
                /\ fsThrown' = NoError
                /\ DOMAIN content'[ref] = DOMAIN content[ref] \cup {name}
                /\ content'[ref][name].kind = IF isDir THEN "folder" ELSE "file"
                /\ \A n \in DOMAIN content[ref] :
                     content'[ref][n] = content[ref][n]
                /\ \A f \in DOMAIN content : f # ref => content'[f] = content[f]
           ELSE /\ ~addResult'
                /\ content' = content
                /\ fsThrown' = AddFailed(lineNum)
                /\ fsPc' = "failed"]_vars

\* Folder a was listed in the root, then a file a: the second add was
\* refused, a is still the folder, and load has failed.
C18_Witness ==
  /\ fsPc = "failed"
  /\ ~addResult
  /\ fsLine = <<"5", SP, "a">>
  /\ ref = rootPath
  /\ content[rootPath][<<"a">>] = FolderEntry
  /\ fsThrown = AddFailed(lineNum)

\* A step in which throwItem was called on the monkey.
ThrowStep == calls' = calls + 1 /\ lastCall' = "throwItem"

\* d divides w: w is a multiple of d.
Divides(d, w) ==
  LET abs(n) == IF n < 0 THEN 0 - n ELSE n
  IN  \E q \in (0 - abs(w))..abs(w) : q * d = w

\* C19: throwItem called with no item at hand throws and leaves the item
\* queue, the hand and the inspection count as they were; called with an
\* item at hand it returns exactly that item, with the if-true destination
\* exactly when the item's worry level is divisible by the monkey's
\* divisor and the if-false destination otherwise, and leaves the hand
\* empty.
C19_ThrowItemContract ==
  [][ThrowStep =>
       IF itemAtHand = <<>>
       THEN /\ monkeyThrown' = NoItemAtHand
            /\ items' = items
            /\ itemAtHand' = itemAtHand
            /\ inspections' = inspections
       ELSE /\ monkeyThrown' = NoError
            /\ itemInAir' # <<>>
            /\ itemInAir'[1].item = itemAtHand[1]
            /\ itemInAir'[1].destination =
                 IF Divides(throwOp.divisor, itemAtHand[1].worryLevel)
                 THEN throwOp.destIfTrue ELSE throwOp.destIfFalse
            /\ itemAtHand' = <<>>]_vars

\* The three plays and the three outcomes of the game.
Plays == {ROCK, PAPER, SCISSORS}
Outcomes == {WIN, LOSS, DRAW}

\* What determineWinner is to return for the player who reached outcome o.
WinnerFor(o) == IF o = WIN THEN 1 ELSE IF o = LOSS THEN 0 - 1 ELSE 0

\* C20: for a rival play and a desired outcome among the three, the play
\* determineCorrectPlay returned reaches that outcome against the rival:
\* determineWinner of it and the rival play is 1 for WIN, -1 for LOSS and
\* 0 for DRAW; and determineWinner(a, b) = -determineWinner(b, a) for all
\* plays a and b.
C20_CorrectPlayReachesOutcome ==
  /\ (rivalPlay \in Plays /\ desiredOutcome \in Outcomes) =>
       /\ rpsThrown = NoError
       /\ yourPlay \in Plays
       /\ determineWinner(yourPlay, rivalPlay) = WinnerFor(desiredOutcome)
  /\ (firstPlay \in Plays /\ secondPlay \in Plays) =>
       /\ roundOutcome = 0 - determineWinner(secondPlay, firstPlay)
       /\ roundOutcome = 0 <=> firstPlay = secondPlay

\* Paper was returned to win against rock, and scissors lost to rock.
C20_Witness ==
  /\ rivalPlay = ROCK /\ desiredOutcome = WIN /\ yourPlay = PAPER
  /\ firstPlay = SCISSORS /\ secondPlay = ROCK /\ roundOutcome = 0 - 1

\* The indices i at which the sequenceLength characters of inputStr at
\* positions i - sequenceLength .. i - 1 (counted from 0) are pairwise
\* distinct.
Markers ==
  { m \in sequenceLength..Len(inputStr) :
      \A j, k \in (m - sequenceLength + 1)..m :
        j # k => inputStr[j] # inputStr[k] }

\* The window: the last characters read, at most sequenceLength of them.
Window ==
  SubSeq(inputStr,
         IF scanI > sequenceLength THEN scanI - sequenceLength + 1 ELSE 1,
         scanI)

\* The set of seen characters is the set of characters of the window, each
\* counted as often as it occurs there.
SeenIsWindow ==
  scanPc # "none" =>
    /\ queue = Window
    /\ history = { queue[k] : k \in 1..Len(queue) }
    /\ DOMAIN occurrences = history
    /\ \A c \in history :
         occurrences[c] = Cardinality({ k \in 1..Len(queue) : queue[k] = c })

\* C21 as claimed: the scan reports, for every input, the smallest index
\* at which the last sequenceLength characters are pairwise distinct, and
\* no character still in the window is dropped from the seen characters.
C21_ReportsFirstMarker ==
  /\ SeenIsWindow
  /\ scanPc = "done" =>
       /\ scanI \in Markers
       /\ \A m \in Markers : scanI <= m

\* C21 as amended: the scan reports the smallest such index when the input
\* has one, and the length of the input when it has none; no character
\* still in the window is dropped from the seen characters.
C21_ReportsFirstMarkerOrLength ==
  /\ SeenIsWindow
  /\ scanPc = "done" =>
       IF Markers # {}
       THEN scanI \in Markers /\ \A m \in Markers : scanI <= m
       ELSE scanI = Len(inputStr)

\* The scan of "aabcda" is done: the window "aabc" slid to "abcd" keeping
\* a among the seen characters, and 5 was reported before the end.
C21_Witness ==
  /\ scanPc = "done"
  /\ inputStr = <<"a", "a", "b", "c", "d", "a">>
  /\ scanI = 5
  /\ history = {"a", "b", "c", "d"}

\* The count at position a is a largest one, and the count at position b
\* is a largest one among the other monkeys.
TwoMostActive(a, b) ==
  /\ a # b
  /\ \A k \in 1..Len(monkeys) : monkeys[k] <= monkeys[a]
  /\ \A k \in 1..Len(monkeys) \ {a} : monkeys[k] <= monkeys[b]

\* C22: for a list of two monkeys or more, with any counts in any order,
\* calculateMonkeyBusiness returns the product of the counts of the two
\* most active monkeys, the square of the largest count when two monkeys
\* tie for it.
C22_ProductOfTwoLargest ==
  (businessPc = "returned" /\ Len(monkeys) >= 2) =>
    /\ \A a, b \in 1..Len(monkeys) :
         TwoMostActive(a, b) => monkeyBusiness = monkeys[a] * monkeys[b]
    /\ \A a, b \in 1..Len(monkeys) :
         (TwoMostActive(a, b) /\ monkeys[a] = monkeys[b])
           => monkeyBusiness = monkeys[a] * monkeys[a]

\* The largest count came after the second largest, and a tie came last.
C22_Witness ==
  /\ businessPc = "returned"
  /\ monkeys = <<1, 2, 3, 3>>
  /\ monkeyBusiness = 9

\* The top k crates of a stack, bottom first, and the same top first.
TopCrates(stack, k) == SubSeq(stack, Len(stack) - k + 1, Len(stack))

TopCratesReversed(stack, k) ==
  [j \in 1..k |-> stack[Len(stack) - j + 1]]

\* C23: apply on two distinct existing stacks moves the top min(quantity,
\* source height) crates of the source onto the destination, in the same
\* order with CRATE_MOVER_9001 and in reversed order with
\* CRATE_MOVER_9000, and leaves the other stacks alone; when the source or
\* the destination does not exist, nothing is moved.
C23_ApplyMovesTopCrates ==
  [][cratePc = "built" =>
       LET src == move'.source
           dest == move'.destination
           qty == move'.quantity
       IN  IF src \in DOMAIN stacks /\ dest \in DOMAIN stacks
           THEN (src # dest /\ qty.kind = "number" /\ qty.v >= 0) =>
                  LET k == IF qty.v < Len(stacks[src]) THEN qty.v
                           ELSE Len(stacks[src])
                  IN  /\ crateThrown' = NoError
                      /\ DOMAIN stacks' = DOMAIN stacks
                      /\ stacks'[src] =
                           SubSeq(stacks[src], 1, Len(stacks[src]) - k)
                      /\ stacks'[dest] =
                           stacks[dest] \o
                             IF craneVersion' = CRATE_MOVER_9001
                             THEN TopCrates(stacks[src], k)
                             ELSE TopCratesReversed(stacks[src], k)
                      /\ \A c \in DOMAIN stacks \ {src, dest} :
                           stacks'[c] = stacks[c]
           ELSE stacks' = stacks]_vars

\* CRATE_MOVER_9001 was asked for three crates of stack 1, which held A
\* and B only, and put both on stack 2, above C, in their order.
C23_Witness ==
  /\ cratePc = "built"
  /\ craneVersion = CRATE_MOVER_9001
  /\ move = [quantity |-> Num(3), source |-> 1, destination |-> 2]
  /\ stacks = <<<<>>, <<"C", "A", "B">>>>

\* The number of instructions of program P with the opcode, and 1 plus the
\* sum of the operands of the addx instructions among its first k.
CountOf(P, opcode) == Cardinality({ k \in 1..Len(P) : P[k].opcode = opcode })

RECURSIVE OnePlusOperands(_, _)
OnePlusOperands(P, k) ==
  IF k = 0 THEN Num(1)
  ELSE IF P[k].opcode = ADDX
  THEN Add(OnePlusOperands(P, k - 1), P[k].arg)
  ELSE OnePlusOperands(P, k - 1)

\* The loop has ended after n + 2m ticks, for the n noop and m addx
\* instructions of the program, with the queue empty, the engine idle and
\* X equal to 1 plus the sum of the addx operands.
EndedAsExpected ==
  LET P == Program
  IN  /\ thrown = NoError
      /\ ticks = CountOf(P, NOOP) + 2 * CountOf(P, ADDX)
      /\ instructions = <<>>
      /\ ~busy
      /\ ~hasAdditionalWork(This)
      /\ getRegisterX(This) = OnePlusOperands(P, Len(P))

\* While the loop runs, fewer than n + 2m ticks have been made.
StillDue ==
  LET P == Program
  IN  ticks < CountOf(P, NOOP) + 2 * CountOf(P, ADDX)

\* C24: for a loaded program of n noop and m addx instructions, n + m > 0,
\* the loop of tick() while hasAdditionalWork() comes to its end, and it
\* ends after exactly n + 2m ticks with the queue empty, the engine idle
\* and X equal to 1 plus the sum of the addx operands.
C24_DriveLoopTerminates ==
  /\ [](loopPc = "done" => EndedAsExpected)
  /\ [](loopPc = "loop" => StillDue)
  /\ <>(loopPc = "done")

\* The loop over noop, addx 3, noop, addx 3 has ended after 6 ticks with
\* X = 7.
C24_Witness ==
  /\ loopPc = "done"
  /\ str = Join(<<noopStr, addxStr \o <<SP, "3">>, noopStr,
                  addxStr \o <<SP, "3">>>>)
  /\ ticks = 6
  /\ getRegisterX(This) = Num(7)
  /\ instructions = <<>>
  /\ ~busy

\* ------------------------------------------------------------------ C25
\* The rows and the columns the screen has.
ScreenRows == 0..5
ScreenColumns == 0..39

\* The number of cycles the run of the loaded text lasts: one for each line
\* that is a noop, two for each line that is an addx.
RunLength ==
  LET starts == { j \in 1..Len(str) : j = 1 \/ str[j - 1] = NL }
  IN  Cardinality({ j \in starts : str[j] = "n" })
        + 2 * Cardinality({ j \in starts : str[j] = "a" })

\* What a direct call of setPixel does: outside the screen it throws and
\* leaves every pixel as it was, inside it sets the addressed pixel and no
\* other.
SetPixelContract ==
  setCalls' = setCalls + 1 =>
    LET r == pixelCall'.row
        c == pixelCall'.column
    IN  IF r \notin ScreenRows \/ c \notin ScreenColumns
        THEN pixelThrown' # NoError /\ pixels' = pixels
        ELSE /\ pixelThrown' = NoError
             /\ pixels'[r][c] = pixelCall'.char
             /\ \A i \in ScreenRows, j \in ScreenColumns :
                  <<i, j>> # <<r, c>> => pixels'[i][j] = pixels[i][j]

\* How the render loop of part2 goes: no write fails during the first 240
\* cycles, a run of at most 240 cycles ends without error after its last
\* cycle, a longer one ends with the write of cycle 241 refused for its row.
RenderContract ==
  pc = "loaded" =>
    /\ thrown # NoError =>
         RunLength > 240 /\ ticks = 240 /\ thrown = NoSuchRow(6)
    /\ thrown = NoError => ticks <= 240 /\ ticks <= RunLength
    /\ loopPc = "done" =>
         IF RunLength <= 240
         THEN thrown = NoError /\ ticks = RunLength
         ELSE thrown # NoError

\* C25: setPixel throws and changes no pixel for a row outside 0..5 or a
\* column outside 0..39, and otherwise changes the addressed pixel only;
\* the render loop of part2 writes without error for a program whose run
\* lasts at most 240 cycles, and for a longer one its first failure is the
\* write of the cycle after the 240th.
C25_SetPixelBoundsAndRender ==
  /\ [][SetPixelContract]_vars
  /\ [](RenderContract)

\* A run of 241 cycles has drawn 240 pixels and failed on the next one,
\* which addressed row 6.
C25_Witness ==
  /\ pc = "loaded"
  /\ loopPc = "done"
  /\ RunLength = 241
  /\ ticks = 240
  /\ row = 6
  /\ thrown = NoSuchRow(6)
  /\ \A i \in ScreenRows, j \in ScreenColumns : pixels[i][j] \in {"#", "."}

====
